---- MODULE Spec2Model ----
(***************************************************************************)
(* A model of src/fun.py (cepstral strain mapping of 4D-STEM data):        *)
(*   cft2, central_beam_mask, ewpc2D, ConstrainedFun, get_spotMaps (with   *)
(*   create_spotList, calculateSpotMapVectors), calculateStrainMap and     *)
(*   makeRelativeSpotReference(_median).                                   *)
(*                                                                         *)
(* Numbers.  The program computes in floating point; the model computes    *)
(* the same quantities exactly:                                            *)
(*   - complex Fourier sums are elements of Z[zeta], zeta = exp(-2 pi i /  *)
(*     24), written on the basis 1, zeta, ..., zeta^7 (unique              *)
(*     representation, so equality of tuples is equality of numbers);      *)
(*   - cepstral coordinates are counted in ticks of half a pixel;          *)
(*   - the strain quantities are kept as integer matrices with their       *)
(*     common denominators, and compared by cross-multiplication.          *)
(* NaN is the empty tuple <<>>, a number v the tuple <<v>>.                *)
(***************************************************************************)
EXTENDS Integers, Sequences, FiniteSets, TLC

VARIABLES
    unit,              \* which function of fun.py this run exercises
    f,                 \* cft2: the 2D array f
    cftCall,           \* cft2: <<the last call (q1, q2, zeroCentered) and its value F>>, or <<>>
    beamArgs,          \* central_beam_mask: <<its arguments>>, or <<>>
    bdisk_filter,      \* central_beam_mask: <<the mask returned>>, or <<>>
    data4d_roi,        \* get_spotMaps: the 4D data, [shape, pat]
    wins,              \* get_spotMaps: the sequence of windows
    valid,             \* get_spotMaps: <<the validity mask>>, or <<>> for None
    method,            \* get_spotMaps: the optimizer's name
    spotMaps,          \* get_spotMaps: the dictionary spotMaps (Q1map, Q2map)
    visited,           \* get_spotMaps: the scan positions the sweep has processed
    peakQ,             \* get_spotMaps: the local peakQ, <<>> while unbound
    coarse,            \* get_spotMaps: per spot and position (Q1max,Q2max) of the visit
    status,            \* get_spotMaps: "ready", "sweep", "returned" or the error raised
    spotMaps_upd,      \* get_spotMaps: <<the dictionary returned>>, or <<>>
    strainArgs,        \* calculateStrainMap: [spotMaps, spotRef, latticeCoords]
    StrainComponents,  \* calculateStrainMap: the dictionary of the seven maps
    Mlocal,            \* calculateStrainMap: per pixel <<the matrix M>> computed there
    done,              \* calculateStrainMap: the pixels the sweep has processed
    strainStatus,      \* calculateStrainMap: "ready", "sweep", "returned" or the error
    ewpcArgs,          \* ewpc2D: its arguments [data, useWindow, minlog], or <<>>
    ewpcOut,           \* ewpc2D: <<what the call computed>>, or <<>>
    conArgs,           \* ConstrainedFun: its arguments [x, func, win1, win2], or <<>>
    conOut,            \* ConstrainedFun: <<[outside, v]>>, the branch taken and y, or <<>>
    refArgs,           \* makeRelativeSpotReference(_median): [spotMaps, ref_roi, median]
    refOut             \* makeRelativeSpotReference(_median): <<spotRef>>, or <<>>

fourierVars == <<f, cftCall>>
beamVars == <<beamArgs, bdisk_filter>>
spotInputs == <<data4d_roi, wins, valid, method>>
spotVars == <<data4d_roi, wins, valid, method, spotMaps, visited, peakQ, coarse, status,
              spotMaps_upd>>
strainVars == <<strainArgs, StrainComponents, Mlocal, done, strainStatus>>
ewpcVars == <<ewpcArgs, ewpcOut>>
conVars == <<conArgs, conOut>>
refVars == <<refArgs, refOut>>
callVars == <<ewpcArgs, ewpcOut, conArgs, conOut, refArgs, refOut>>
vars == <<unit, f, cftCall, beamArgs, bdisk_filter, data4d_roi, wins, valid, method,
          spotMaps, visited, peakQ, coarse, status, spotMaps_upd,
          strainArgs, StrainComponents, Mlocal, done, strainStatus, ewpcArgs, ewpcOut,
          conArgs, conOut, refArgs, refOut>>

\* A float is <<v>>; np.nan is <<>> (so that every map entry is a tuple).
NaN == <<>>
Num(v) == <<v>>
IsNaN(x) == x = NaN

\* The variables of the functions a run does not exercise.
SpotsIdle ==
    /\ data4d_roi = <<>> /\ wins = <<>> /\ valid = <<>> /\ method = ""
    /\ spotMaps = <<>> /\ visited = {} /\ peakQ = <<>> /\ coarse = <<>>
    /\ status = "" /\ spotMaps_upd = <<>>
StrainIdle ==
    /\ strainArgs = <<>> /\ StrainComponents = <<>> /\ Mlocal = <<>> /\ done = {}
    /\ strainStatus = ""
EwpcIdle == ewpcArgs = <<>> /\ ewpcOut = <<>>
ConIdle == conArgs = <<>> /\ conOut = <<>>
RefIdle == refArgs = <<>> /\ refOut = <<>>
CallsIdle == EwpcIdle /\ ConIdle /\ RefIdle

\* the element of a one-element set
TheOne(S) == CHOOSE r \in S : TRUE

Abs(x) == IF x < 0 THEN -x ELSE x
Max(a, b) == IF a < b THEN b ELSE a
Min(a, b) == IF a < b THEN a ELSE b

\* ------------------------------------------------------------------------
\* Bounds of the model
\* ------------------------------------------------------------------------
MaxDim == 3      \* cft2: arrays f have 1..MaxDim rows and columns
MaxVal == 2      \* cft2: the entries of f lie in -1..MaxVal
MaxShape == 4    \* central_beam_mask: each entry of dpShape lies in 1..MaxShape
MaxHeight == 2   \* get_spotMaps: the cepstral peak of a pattern is at most MaxHeight high
MaxSpots == 2    \* get_spotMaps: at most MaxSpots windows

\* ------------------------------------------------------------------------
\* Exact complex arithmetic on 24th roots of unity
\* ------------------------------------------------------------------------
\* A turn is divided in PhaseUnits; phase e stands for exp(-2 pi i e / 24).
PhaseUnits == 2 * 12
Deg == 2 * 4   \* degree of the 24th cyclotomic polynomial x^8 - x^4 + 1

CZero == [i \in 1..Deg |-> 0]
COne == [i \in 1..Deg |-> IF i = 1 THEN 1 ELSE 0]
CAdd(a, b) == [i \in 1..Deg |-> a[i] + b[i]]
CScale(c, a) == [i \in 1..Deg |-> c * a[i]]
\* a * zeta, reduced with zeta^8 = zeta^4 - 1
MulZeta(a) ==
    [i \in 1..Deg |->
        IF i = 1 THEN -a[Deg]
        ELSE IF i = 5 THEN a[4] + a[Deg]
        ELSE a[i - 1]]

RECURSIVE MulPhase(_, _)
\* a * exp(-2 pi i e / 24), e >= 0
MulPhase(a, e) == IF e = 0 THEN a ELSE MulPhase(MulZeta(a), e - 1)

\* the 24 roots of unity exp(-2 pi i e / 24)
PhaseTable == [e \in 0..(PhaseUnits - 1) |-> MulPhase(COne, e)]

\* exp(-2 pi i e / 24) for any natural e
Phase(e) == PhaseTable[e % PhaseUnits]

RECURSIVE CSum(_, _, _)
\* sum of term[i] for i in lo..hi
CSum(term, lo, hi) == IF lo > hi THEN CZero ELSE CAdd(term[lo], CSum(term, lo + 1, hi))

\* ------------------------------------------------------------------------
\* cft2 and the discrete Fourier transform
\* ------------------------------------------------------------------------
Rows(a) == Cardinality(DOMAIN a)
Cols(a) == Cardinality(DOMAIN a[0])

\* The phase of exp(-2 pi i * j * q / m) with q = t/2 pixels (t in ticks).
ExpPhase(j, t, m) == (j * t * (PhaseUnits \div (2 * m))) % PhaseUnits

\* A bug one could make in cft2: both axes divided by the row count m.
cft2_swappedSize(farr, t1, t2, zeroCentered) ==
    LET m == Rows(farr)
        n == Cols(farr)
        e1 == [j \in 0..(m - 1) |-> ExpPhase(j, t1, m)]
        e2 == [k \in 0..(n - 1) |-> ExpPhase(k, t2, m)]
        rowsum == [j \in 0..(m - 1) |->
                     CSum([k \in 0..(n - 1) |-> CScale(farr[j][k], Phase(e1[j] + e2[k]))],
                          0, n - 1)]
    IN  CSum(rowsum, 0, m - 1)

\* cft2(f,q1,q2,zeroCentered): q1, q2 are given in ticks (t = 2q).
\*   if zeroCentered: q1=q1+m/2; q2=q2+n/2
\*   F = np.sum(f*np.outer(exp(-2 pi i jgr q1/m), exp(-2 pi i kgr q2/n)))
cft2(farr, t1, t2, zeroCentered) ==
    LET m == Rows(farr)
        n == Cols(farr)
        s1 == IF zeroCentered THEN t1 + m ELSE t1
        s2 == IF zeroCentered THEN t2 + n ELSE t2
        e1 == [j \in 0..(m - 1) |-> ExpPhase(j, s1, m)]
        e2 == [k \in 0..(n - 1) |-> ExpPhase(k, s2, n)]
        outer == [j \in 0..(m - 1) |-> [k \in 0..(n - 1) |-> Phase(e1[j] + e2[k])]]
        rowsum == [j \in 0..(m - 1) |->
                     CSum([k \in 0..(n - 1) |-> CScale(farr[j][k], outer[j][k])], 0, n - 1)]
    IN  CSum(rowsum, 0, m - 1)

\* np.fft.fft2: the one-dimensional transform along the last axis, then
\* along the first one.
fft2(farr) ==
    LET m == Rows(farr)
        n == Cols(farr)
        alongLast == [j \in 0..(m - 1) |-> [v \in 0..(n - 1) |->
            CSum([k \in 0..(n - 1) |-> CScale(farr[j][k], Phase(ExpPhase(k, 2 * v, n)))],
                 0, n - 1)]]
    IN  [u \in 0..(m - 1) |-> [v \in 0..(n - 1) |->
            CSum([j \in 0..(m - 1) |-> MulPhase(alongLast[j][v], ExpPhase(j, 2 * u, m))],
                 0, m - 1)]]

\* np.fft.fftshift: entry q of the result is entry (q - floor(size/2)) mod size
fftshift(Farr) ==
    LET m == Rows(Farr)
        n == Cols(Farr)
    IN  [u \in 0..(m - 1) |-> [v \in 0..(n - 1) |->
            Farr[(u + m - (m \div 2)) % m][(v + n - (n \div 2)) % n]]]

\* The arrays the model feeds to cft2: m x n, two impulses a and b.
Impulses(m, n, pa, a, b) ==
    [j \in 0..(m - 1) |-> [k \in 0..(n - 1) |->
        (IF <<j, k>> = pa THEN a ELSE 0) + (IF <<j, k>> = <<m - 1, n - 1>> THEN b ELSE 0)]]

FourierArrays ==
    UNION { { Impulses(m, n, pa, a, b) :
                pa \in (0..(m - 1)) \X (0..(n - 1)), a \in 1..MaxVal, b \in {-1, 0} } :
            m \in 1..MaxDim, n \in 1..MaxDim }

InitFourier ==
    /\ unit = "cft2"
    /\ f \in FourierArrays
    /\ cftCall = <<>>
    /\ beamArgs = <<>>
    /\ bdisk_filter = <<>>
    /\ SpotsIdle /\ StrainIdle /\ CallsIdle

\* One call of cft2 at a point of the half-pixel grid.
Cft2Call ==
    /\ unit = "cft2"
    /\ cftCall = <<>>
    /\ \E t1 \in 0..(2 * Rows(f) - 1), t2 \in 0..(2 * Cols(f) - 1), zc \in BOOLEAN :
          cftCall' = <<[q1 |-> t1, q2 |-> t2, zeroCentered |-> zc,
                        F |-> cft2(f, t1, t2, zc)]>>
    /\ UNCHANGED <<unit, callVars, f, beamVars, spotVars, strainVars>>

NextFourier == Cft2Call
SpecFourier == InitFourier /\ [][NextFourier]_vars

\* C10: at integer (q1,q2) and zeroCentered=0, cft2(f,q1,q2) is entry [q1,q2]
\* of the plain 2D discrete Fourier transform of f.
C10_Cft2EqualsDft ==
    (unit = "cft2" /\ cftCall # <<>>) =>
        LET c == cftCall[1] IN
        (~c.zeroCentered /\ c.q1 % 2 = 0 /\ c.q2 % 2 = 0) =>
            c.F = fft2(f)[c.q1 \div 2][c.q2 \div 2]

\* C10 witness: a call at an integer point off the origin of a non-square
\* array with two non-zero entries, whose value is not zero.
C10_Witness ==
    /\ unit = "cft2" /\ cftCall # <<>>
    /\ ~cftCall[1].zeroCentered
    /\ cftCall[1].q1 = 2 /\ cftCall[1].q2 = 4
    /\ Rows(f) = 2 /\ Cols(f) = 3
    /\ f[1][2] = -1 /\ f[0][1] = 2
    /\ cftCall[1].F # CZero

\* C11 as stated: with zeroCentered set, at integer (q1,q2), cft2(f,q1,q2,1)
\* is entry [q1,q2] of fftshift(fft2(f)), for even and for odd dimensions.
C11_ZeroCenteredEqualsShifted ==
    (unit = "cft2" /\ cftCall # <<>>) =>
        LET c == cftCall[1] IN
        (c.zeroCentered /\ c.q1 % 2 = 0 /\ c.q2 % 2 = 0) =>
            c.F = fftshift(fft2(f))[c.q1 \div 2][c.q2 \div 2]

\* ------------------------------------------------------------------------
\* central_beam_mask
\* ------------------------------------------------------------------------
DefaultRadius == 5       \* bright_disk_radius=5
DefaultSharpness == 5    \* erf_sharpness=5

\* A bug one could make: the grid centred on the middle of the array.
GridCoord2_centred(size, r) == -size + 2 * r + 1

\* A bug one could make: a grid of spacing one half, np.arange(-size, 0)/2.
GridCoord2_halfSpaced(size, r) == -size + r

\* Twice the r-th entry of np.arange(-size, size, 2)/2.
GridCoord2(size, r) == -size + 2 * r

\* erf((dist-R)*k)/2 - erf((dist+R)*k)/2 + 1, as a function of dist^2 (four
\* times it: distSq4), R and k.  For R # 0 and k # 0 the value is strictly
\* monotone in dist, so it is named by (distSq4, R, k); for R = 0 or k = 0
\* the two erf terms cancel and the value is 1 whatever dist is.
ErfProfile(distSq4, R, k) ==
    IF R = 0 \/ k = 0 THEN [distSq4 |-> 0, R |-> 0, k |-> 0]
    ELSE [distSq4 |-> distSq4, R |-> R, k |-> k]

central_beam_mask(shape, bright_disk_radius, erf_sharpness) ==
    LET xcols == shape[Len(shape) - 1]
        yrows == shape[Len(shape)]
        kx2 == [r \in 0..(xcols - 1) |-> GridCoord2(xcols, r)]
        ky2 == [c \in 0..(yrows - 1) |-> GridCoord2(yrows, c)]
        distSq4 == [r \in 0..(xcols - 1) |-> [c \in 0..(yrows - 1) |->
                      kx2[r] * kx2[r] + ky2[c] * ky2[c]]]
    IN  [r \in 0..(xcols - 1) |-> [c \in 0..(yrows - 1) |->
            ErfProfile(distSq4[r][c], bright_disk_radius, erf_sharpness)]]

\* dpShape is [k1,k2] or [x1,x2,k1,k2]
BeamShapes ==
    ((1..MaxShape) \X (1..MaxShape))
    \cup { <<1, 2, k1, k2>> : k1 \in 1..MaxShape, k2 \in 1..MaxShape }

InitBeam ==
    /\ unit = "central_beam_mask"
    /\ \E shape \in BeamShapes, R \in {0, 1, DefaultRadius}, k \in {0, DefaultSharpness} :
          beamArgs = <<[dpShape |-> shape, bright_disk_radius |-> R, erf_sharpness |-> k]>>
    /\ bdisk_filter = <<>>
    /\ f = <<>>
    /\ cftCall = <<>>
    /\ SpotsIdle /\ StrainIdle /\ CallsIdle

BeamMaskCall ==
    /\ unit = "central_beam_mask"
    /\ bdisk_filter = <<>>
    /\ bdisk_filter' = <<central_beam_mask(beamArgs[1].dpShape,
                                           beamArgs[1].bright_disk_radius,
                                           beamArgs[1].erf_sharpness)>>
    /\ UNCHANGED <<unit, callVars, fourierVars, beamArgs, spotVars, strainVars>>

NextBeam == BeamMaskCall
SpecBeam == InitBeam /\ [][NextBeam]_vars

BeamRows == beamArgs[1].dpShape[Len(beamArgs[1].dpShape) - 1]
BeamCols == beamArgs[1].dpShape[Len(beamArgs[1].dpShape)]

\* C9 as stated: for even dimensions, mask[r,c] == mask[rows-1-r, cols-1-c].
C9_CentreSymmetric ==
    (unit = "central_beam_mask" /\ bdisk_filter # <<>>
        /\ BeamRows % 2 = 0 /\ BeamCols % 2 = 0) =>
        \A r \in 0..(BeamRows - 1), c \in 0..(BeamCols - 1) :
            bdisk_filter[1][r][c] = bdisk_filter[1][BeamRows - 1 - r][BeamCols - 1 - c]

\* C9 amended: the mask is point-symmetric about the pixel (rows/2, cols/2),
\* where the grid is zero: mask[r,c] == mask[(rows-r) mod rows, (cols-c) mod
\* cols], for every shape, and it has the shape (rows, cols).
C9_SymmetricAboutZeroPixel ==
    (unit = "central_beam_mask" /\ bdisk_filter # <<>>) =>
        /\ DOMAIN bdisk_filter[1] = 0..(BeamRows - 1)
        /\ \A r \in 0..(BeamRows - 1) :
              /\ DOMAIN bdisk_filter[1][r] = 0..(BeamCols - 1)
              /\ \A c \in 0..(BeamCols - 1) :
                    bdisk_filter[1][r][c] =
                        bdisk_filter[1][(BeamRows - r) % BeamRows][(BeamCols - c) % BeamCols]

\* C9 witness: a 4 x 4 mask with the default radius and sharpness, in which
\* pixel (1,1) equals its mirror image (3,3) and differs from (2,2), its
\* mirror image about the middle of the array.
C9_Witness ==
    /\ unit = "central_beam_mask" /\ bdisk_filter # <<>>
    /\ BeamRows = 4 /\ BeamCols = 4
    /\ beamArgs[1].bright_disk_radius = DefaultRadius
    /\ beamArgs[1].erf_sharpness = DefaultSharpness
    /\ bdisk_filter[1][1][1] = bdisk_filter[1][3][3]
    /\ bdisk_filter[1][1][1] # bdisk_filter[1][2][2]

\* C23 as stated: the radial distance of the mask is taken on a grid of
\* spacing 0.5: for some origin (a/4, b/4) pixel (r,c) lies at distance
\* hypot(a/4 + r/2, b/4 + c/2), and the mask value there is the erf profile
\* of that distance.
C23_GridSpacingHalf ==
    (unit = "central_beam_mask" /\ bdisk_filter # <<>>) =>
        \E a, b \in (-4 * (MaxShape + 1))..(4 * (MaxShape + 1)) :
            \A r \in 0..(BeamRows - 1), c \in 0..(BeamCols - 1) :
                LET d16 == (a + 2 * r) * (a + 2 * r) + (b + 2 * c) * (b + 2 * c) IN
                /\ d16 % 4 = 0
                /\ bdisk_filter[1][r][c] =
                      ErfProfile(d16 \div 4, beamArgs[1].bright_disk_radius,
                                 beamArgs[1].erf_sharpness)

\* C23 amended: the grid has spacing 1: along an axis of n pixels the
\* coordinate of pixel i is -n/2 + i (adjacent pixels differ by 1; zero is
\* at index n/2 when n is even, and the coordinates are half-integers when
\* n is odd), the mask value at distance r = hypot of the two coordinates
\* is [erf((r-R)*k) - erf((r+R)*k)]/2 + 1, and the mask has exactly the
\* shape (rows, cols).
C23_GridSpacingOne ==
    (unit = "central_beam_mask" /\ bdisk_filter # <<>>) =>
        /\ DOMAIN bdisk_filter[1] = 0..(BeamRows - 1)
        /\ \A r \in 0..(BeamRows - 1) :
              /\ DOMAIN bdisk_filter[1][r] = 0..(BeamCols - 1)
              /\ \A c \in 0..(BeamCols - 1) :
                    LET x2 == 2 * r - BeamRows      \* twice the coordinates
                        y2 == 2 * c - BeamCols
                    IN  bdisk_filter[1][r][c] =
                            ErfProfile(x2 * x2 + y2 * y2,
                                       beamArgs[1].bright_disk_radius,
                                       beamArgs[1].erf_sharpness)

\* C23 witness: a 4 x 3 mask with the default radius and sharpness: along
\* the rows the distances in column 1 (coordinate -1/2) are those of the
\* coordinates -2, -1, 0, 1: four times their squares are 17, 5, 1, 5.
C23_Witness ==
    /\ unit = "central_beam_mask" /\ bdisk_filter # <<>>
    /\ BeamRows = 4 /\ BeamCols = 3
    /\ beamArgs[1].bright_disk_radius = DefaultRadius
    /\ beamArgs[1].erf_sharpness = DefaultSharpness
    /\ [r \in 0..3 |-> bdisk_filter[1][r][1].distSq4] = (0 :> 17 @@ 1 :> 5 @@ 2 :> 1 @@ 3 :> 5)

\* ------------------------------------------------------------------------
\* ewpc2D: the logarithm
\* ------------------------------------------------------------------------
\* Intensities are integers; minlog is counted in tenths, so that the
\* default 0.1 is 1 and the argument of the logarithm, in tenths, is
\* LogScale * (data - minval) + minlog.
LogScale == 10
DefaultMinlog == 1

\* np.min(data)
ArrayMin(data) ==
    CHOOSE v \in {data[j][k] : j \in DOMAIN data, k \in DOMAIN data[0]} :
        \A j \in DOMAIN data, k \in DOMAIN data[0] : v <= data[j][k]

\* data-minval+minlog, in tenths
LogArg(data, minlog) ==
    LET minval == ArrayMin(data)
    IN  [j \in DOMAIN data |-> [k \in DOMAIN data[j] |->
            LogScale * (data[j][k] - minval) + minlog]]

\* np.log(x) of a real x (in tenths): the logarithm, kept by its argument,
\* for x > 0; -inf for 0 and nan for x < 0, each with a RuntimeWarning and
\* without an exception.
np_log(x) ==
    IF x > 0 THEN [kind |-> "log", of |-> x]
    ELSE IF x = 0 THEN [kind |-> "-inf", of |-> 0]
    ELSE [kind |-> "nan", of |-> 0]

\* Lines 133-141.  Nothing in ewpc2D inspects minlog: every call returns.
\* The cepstrum is finite exactly when every entry of logdp is: one -inf or
\* nan in logdp*win reaches every entry of fft2.
ewpc2D_call(data, useWindow, minlog) ==
    LET logArg == LogArg(data, minlog)
        logdp == [j \in DOMAIN data |-> [k \in DOMAIN data[j] |-> np_log(logArg[j][k])]]
    IN  [raised |-> FALSE, logArg |-> logArg, logdp |-> logdp,
         finite |-> \A j \in DOMAIN data, k \in DOMAIN data[0] : logdp[j][k].kind = "log"]

EwpcShapes == {<<1, 2>>, <<2, 2>>}
Minlogs == {-1, 0, DefaultMinlog, 5}

InitEwpc ==
    /\ unit = "ewpc2D"
    /\ \E shape \in EwpcShapes, useWindow \in BOOLEAN, minlog \in Minlogs :
          \E data \in [0..(shape[1] - 1) -> [0..(shape[2] - 1) -> 0..MaxVal]] :
              ewpcArgs = [data |-> data, useWindow |-> useWindow, minlog |-> minlog]
    /\ ewpcOut = <<>>
    /\ f = <<>> /\ cftCall = <<>> /\ beamArgs = <<>> /\ bdisk_filter = <<>>
    /\ SpotsIdle /\ StrainIdle /\ ConIdle /\ RefIdle

\* One call of ewpc2D(data, useWindow, minlog).
Ewpc2DCall ==
    /\ unit = "ewpc2D"
    /\ ewpcOut = <<>>
    /\ ewpcOut' = <<ewpc2D_call(ewpcArgs.data, ewpcArgs.useWindow, ewpcArgs.minlog)>>
    /\ UNCHANGED <<unit, ewpcArgs, conVars, refVars, fourierVars, beamVars, spotVars, strainVars>>

NextEwpc == Ewpc2DCall
SpecEwpc == InitEwpc /\ [][NextEwpc]_vars

\* the data of the call is constant
ConstantData == \A j \in DOMAIN ewpcArgs.data, k \in DOMAIN ewpcArgs.data[0] :
                    ewpcArgs.data[j][k] = ewpcArgs.data[0][0]

\* C12 as stated: a call of ewpc2D with minlog <= 0 is rejected, so that
\* whenever the logarithm is taken every argument is positive; and for
\* constant data the argument is minlog at every pixel.
C12_MinlogEnforced ==
    (unit = "ewpc2D" /\ ewpcOut # <<>>) =>
        /\ ewpcArgs.minlog <= 0 => ewpcOut[1].raised
        /\ ~ewpcOut[1].raised =>
              \A j \in DOMAIN ewpcArgs.data, k \in DOMAIN ewpcArgs.data[0] :
                  /\ ewpcOut[1].logArg[j][k] > 0
                  /\ ConstantData => ewpcOut[1].logArg[j][k] = ewpcArgs.minlog

\* ------------------------------------------------------------------------
\* get_spotMaps: patterns, cepstrum, windows
\* ------------------------------------------------------------------------
\* Cepstral coordinates are counted in ticks of half a pixel: pixel q is
\* tick 2q.
Tick == 2

\* A diffraction pattern CBED is represented by the magnitude of the
\* continuous transform of its windowed logarithm,
\*     |cft2(win*np.log(CBED-minval+0.1), x[0], x[1], 1)|,
\* sampled on the tick grid: one peak of the given height at the tick
\* `peak`, falling by one per tick of distance; height 0 is a flat pattern.
Mag(p, t1, t2) ==
    LET d == Max(Abs(t1 - p.peak[1]), Abs(t2 - p.peak[2]))
    IN  IF d >= p.height THEN 0 ELSE p.height - d

\* PeakFun = lambda x: -np.abs(cft2(win*np.log(CBED-minval+0.1),x[0],x[1],1))
PeakFun(p, x) == -Mag(p, x[1], x[2])

\* ewpc2D(CBED): np.abs(np.fft.fftshift(np.fft.fft2(logdp*win))), an N_k1 x
\* N_k2 array.  Entry q of the shifted transform is the frequency
\* q - floor(m/2), which cft2 with zeroCentered=1 reaches at q + (m mod 2)/2.
ewpc2D(p, Nk1, Nk2) ==
    [q1 \in 0..(Nk1 - 1) |-> [q2 \in 0..(Nk2 - 1) |->
        Mag(p, Tick * q1 + (Nk1 % 2), Tick * q2 + (Nk2 % 2))]]

\* A bug one could make: the first two entries of a window taken for Q1.
create_spotList_rowsFirst(w) ==
    [spotRangeQ1 |-> [i \in 1..Len(w) |-> <<w[i][1], w[i][2]>>],
     spotRangeQ2 |-> [i \in 1..Len(w) |-> <<w[i][3], w[i][4]>>]]

\* create_spotList(wins): spotRangeQ1 is [wins[i][2],wins[i][3]] and
\* spotRangeQ2 is [wins[i][0],wins[i][1]] (tuples count from 1 here).
create_spotList(w) ==
    [spotRangeQ1 |-> [i \in 1..Len(w) |-> <<w[i][3], w[i][4]>>],
     spotRangeQ2 |-> [i \in 1..Len(w) |-> <<w[i][1], w[i][2]>>]]

\* The indices a[lo:stop] selects on an axis of length len (Python slicing:
\* a negative bound counts from the end, a bound past the end is clipped).
SliceIdx(lo, stop, len) ==
    LET a == IF lo < 0 THEN Max(lo + len, 0) ELSE Min(lo, len)
        b == IF stop < 0 THEN Max(stop + len, 0) ELSE Min(stop, len)
    IN  [i \in 1..(b - a) |-> a + i - 1]

\* A bug one could make: the last maximum taken on ties.
CoarseMax_lastOnTies(EWPC, r1, r2) ==
    LET n2 == Len(r2)
        flat == 0..(Len(r1) * n2 - 1)
        val(i) == EWPC[r1[(i \div n2) + 1]][r2[(i % n2) + 1]]
        best == CHOOSE i \in flat :
                    /\ \A i2 \in flat : val(i2) <= val(i)
                    /\ \A i2 \in flat : i2 > i => val(i2) < val(i)
    IN  <<r1[(best \div n2) + 1], r2[(best % n2) + 1]>>

\* np.unravel_index(np.argmax(spotNeighborhood), shape) read through Q1_roi,
\* Q2_roi: the first maximum in row-major order, as (Q1max, Q2max).
CoarseMax(EWPC, r1, r2) ==
    TheOne({ LET n2 == Len(rows2)
                 flat == 0..(Len(rows1) * n2 - 1)
                 val(i) == spotNeighborhood[rows1[(i \div n2) + 1]][rows2[(i % n2) + 1]]
                 best == CHOOSE i \in flat :
                             /\ \A i2 \in flat : val(i2) <= val(i)
                             /\ \A i2 \in flat : i2 < i => val(i2) < val(i)
             IN  <<rows1[(best \div n2) + 1], rows2[(best % n2) + 1]>> :
                 spotNeighborhood \in {EWPC}, rows1 \in {r1}, rows2 \in {r2} })

\* ------------------------------------------------------------------------
\* get_spotMaps: the constrained objective and the optimizers
\* ------------------------------------------------------------------------
\* A bug one could make: func evaluated outside the window too.
ConstrainedFun_noPenalty(x, p, win1, win2) ==
    [outside |-> x[1] < Tick * win1[1] \/ x[1] > Tick * win1[2]
                    \/ x[2] < Tick * win2[1] \/ x[2] > Tick * win2[2],
     v |-> PeakFun(p, x)]

\* A bug one could make: the upper edges of the window counted as outside.
ConstrainedFun_halfOpen(x, p, win1, win2) ==
    IF x[1] < Tick * win1[1] \/ x[1] >= Tick * win1[2]
         \/ x[2] < Tick * win2[1] \/ x[2] >= Tick * win2[2]
    THEN [outside |-> TRUE,
          v |-> (x[1] - win1[1] - win1[2]) * (x[1] - win1[1] - win1[2])
                + (x[2] - win2[1] - win2[2]) * (x[2] - win2[1] - win2[2])]
    ELSE [outside |-> FALSE, v |-> PeakFun(p, x)]

\* An objective value: inside the window the (non-positive) value of func,
\* outside it a distance, kept as its square in ticks.
ConstrainedFun(x, p, win1, win2) ==
    IF x[1] < Tick * win1[1] \/ x[1] > Tick * win1[2]
         \/ x[2] < Tick * win2[1] \/ x[2] > Tick * win2[2]
    THEN LET c1 == win1[1] + win1[2]     \* np.mean(win1), in ticks
             c2 == win2[1] + win2[2]
         IN  [outside |-> TRUE,
              v |-> (x[1] - c1) * (x[1] - c1) + (x[2] - c2) * (x[2] - c2)]
    ELSE [outside |-> FALSE, v |-> PeakFun(p, x)]

\* The points an optimizer started at x0 examines: x0 and its neighbours on
\* the tick grid.  The optimizers are scipy's; the model lets them return
\* the best of these points, x0 itself before any other point of equal value
\* (Rank breaks ties).
Neighbours(x0) == { <<x0[1] + d1, x0[2] + d2>> : d1 \in {-1, 0, 1}, d2 \in {-1, 0, 1} }
Rank(x0, c) == IF c = x0 THEN 0 ELSE 1 + 3 * (c[1] - x0[1] + 1) + (c[2] - x0[2] + 1)
RankSpan == 2 * 5    \* more than any Rank

\* The least pair of a set K of pairs <<key, point>> with distinct keys
MinKeyed(K) == CHOOSE kc \in K : \A kc2 \in K : kc[1] <= kc2[1]

\* The point c of cands with the least value(c) (a value of func is <= 0 <=
\* a distance, so ConstrainedFun's values order as their v fields do).
ArgMin(cands, x0, value) ==
    TheOne({ MinKeyed({ <<RankSpan * val[c] + Rank(x0, c), c>> : c \in cands }) :
               val \in {value} })[2]

\* A bug one could make: the start returned when the search has not converged.
fmin_startOnFailure(p, win1, win2, x0) ==
    LET constrainedPeakFun == [x \in Neighbours(x0) |-> ConstrainedFun(x, p, win1, win2).v]
        best == ArgMin(Neighbours(x0), x0, constrainedPeakFun)
    IN  IF \A c \in Neighbours(best) :
              ConstrainedFun(best, p, win1, win2).v <= ConstrainedFun(c, p, win1, win2).v
        THEN best ELSE x0

\* optimize.fmin(constrainedPeakFun, x0=[Q1max,Q2max], ...)
fmin(p, win1, win2, x0) ==
    LET constrainedPeakFun == [x \in Neighbours(x0) |-> ConstrainedFun(x, p, win1, win2).v]
    IN  ArgMin(Neighbours(x0), x0, constrainedPeakFun)

\* optimize.minimize(PeakFun, x0=[Q1max,Q2max], method=method, bounds=bnds).x
minimize(p, bnds, x0) ==
    LET inb == { c \in Neighbours(x0) :
                    /\ Tick * bnds[1][1] <= c[1] /\ c[1] <= Tick * bnds[1][2]
                    /\ Tick * bnds[2][1] <= c[2] /\ c[2] <= Tick * bnds[2][2] }
    IN  ArgMin(inb, x0, [x \in inb |-> PeakFun(p, x)])

BoundedMethods == {"L-BFGS-B", "Powell", "TNC"}

\* ------------------------------------------------------------------------
\* get_spotMaps: the sweep
\* ------------------------------------------------------------------------
N_x1 == data4d_roi.shape[1]
N_x2 == data4d_roi.shape[2]
N_k1 == data4d_roi.shape[3]
N_k2 == data4d_roi.shape[4]
Positions == (0..(N_x1 - 1)) \X (0..(N_x2 - 1))

\* A bug one could make: no mask given read as an empty mask.
ValidMask_noneIsEmpty ==
    IF valid = <<>> THEN [j \in 0..(N_x1 - 1) |-> [k \in 0..(N_x2 - 1) |-> FALSE]]
    ELSE valid[1]

\* if np.sum(valid==None): valid = np.ones(...);  valid = valid.astype(bool)
ValidMask ==
    IF valid = <<>> THEN [j \in 0..(N_x1 - 1) |-> [k \in 0..(N_x2 - 1) |-> TRUE]]
    ELSE valid[1]
\* mask_pos=np.where(valid)
mask_pos == { pos \in Positions : ValidMask[pos[1]][pos[2]] }

\* A bug one could make: the maps left at np.zeros, never set to nan.
NanMap_zeros == [j \in 0..(N_x1 - 1) |-> [k \in 0..(N_x2 - 1) |-> Num(0)]]

\* np.zeros(data4d_roi.shape[0:2]) with every value set to nan
NanMap == [j \in 0..(N_x1 - 1) |-> [k \in 0..(N_x2 - 1) |-> NaN]]

\* A bug one could make: the pattern of the first row read at every row.
PatternAt_firstRow(d, j, k) == d.pat[0][k]

\* CBED = data4d_roi[j,k,:,:]
PatternAt(d, j, k) == d.pat[j][k]

\* bnds=((spot_ROI_q1[0],spot_ROI_q1[1]+1),(spot_ROI_q2[0],spot_ROI_q2[1]+1))
bnds(spot_ROI_q1, spot_ROI_q2) ==
    <<<<spot_ROI_q1[1], spot_ROI_q1[2] + 1>>, <<spot_ROI_q2[1], spot_ROI_q2[2] + 1>>>>

\* A bug one could make: a method that is not recognised skipped in
\* silence, the maps left at nan.
RefineSpot_skipUnknown(acc, s, j, k, CBED, Qmax, spot_ROI_q1, spot_ROI_q2) ==
    LET x0 == <<Tick * Qmax[1], Tick * Qmax[2]>>
        pk == IF method = "Nelder-Mead"
                THEN <<fmin(CBED, spot_ROI_q1, spot_ROI_q2, x0)>>
              ELSE IF method \in BoundedMethods
                THEN <<minimize(CBED, bnds(spot_ROI_q1, spot_ROI_q2), x0)>>
              ELSE acc.peakQ
    IN  TheOne({ IF q = <<>>
                 THEN [acc EXCEPT !.coarse[s][j][k] = <<Qmax>>]
                 ELSE [acc EXCEPT !.coarse[s][j][k] = <<Qmax>>,
                                  !.peakQ = q,
                                  !.maps.Q1map[s][j][k] = Num(q[1][1]),
                                  !.maps.Q2map[s][j][k] = Num(q[1][2])] : q \in {pk} })

\* Lines 489-498 for window s at (j,k), given the pattern and the coarse
\* maximum: the optimizer's call and the two assignments.
RefineSpot(acc, s, j, k, CBED, Qmax, spot_ROI_q1, spot_ROI_q2) ==
    LET x0 == <<Tick * Qmax[1], Tick * Qmax[2]>>
        pk == IF method = "Nelder-Mead"
                THEN <<fmin(CBED, spot_ROI_q1, spot_ROI_q2, x0)>>
              ELSE IF method \in BoundedMethods
                THEN <<minimize(CBED, bnds(spot_ROI_q1, spot_ROI_q2), x0)>>
              ELSE acc.peakQ
    IN  TheOne({ IF q = <<>>
                 THEN [acc EXCEPT !.coarse[s][j][k] = <<Qmax>>,
                                  !.err = "NameError"]    \* peakQ is not bound
                 ELSE [acc EXCEPT !.coarse[s][j][k] = <<Qmax>>,
                                  !.peakQ = q,
                                  !.maps.Q1map[s][j][k] = Num(q[1][1]),
                                  !.maps.Q2map[s][j][k] = Num(q[1][2])] : q \in {pk} })

\* One pass of the body of `for s in range(len(spotList['spotRangeQ1']))` at
\* position (j,k), on acc = [maps, coarse, peakQ, err]; a window after an
\* error is not reached.
StepWindow(acc, s, j, k) ==
    IF acc.err # "" THEN acc
    ELSE
      LET spotList == create_spotList(wins)
          spot_ROI_q1 == spotList.spotRangeQ1[s]
          spot_ROI_q2 == spotList.spotRangeQ2[s]
          r1 == SliceIdx(spot_ROI_q1[1], spot_ROI_q1[2] + 1, N_k1)
          r2 == SliceIdx(spot_ROI_q2[1], spot_ROI_q2[2] + 1, N_k2)
      IN
      IF r1 = <<>> \/ r2 = <<>>
      THEN [acc EXCEPT !.err = "ValueError"]    \* np.argmax of an empty array
      ELSE LET CBED == PatternAt(data4d_roi, j, k)
                EWPC == ewpc2D(CBED, N_k1, N_k2)
           IN  TheOne({ RefineSpot(acc, s, j, k, cb, Qmax, q1, q2) :
                          cb \in {CBED}, Qmax \in {CoarseMax(EWPC, r1, r2)},
                          q1 \in {spot_ROI_q1}, q2 \in {spot_ROI_q2} })

RECURSIVE SweepWindows(_, _, _, _)
SweepWindows(acc, s, j, k) ==
    IF s > Len(wins) THEN acc
    ELSE TheOne({ SweepWindows(a, s + 1, j, k) : a \in {StepWindow(acc, s, j, k)} })

\* arithmetic on floats, nan in, nan out
Sub(x, c) == IF IsNaN(x) THEN NaN ELSE Num(x[1] - c)

RECURSIVE GCD(_, _)
GCD(a, b) == IF b = 0 THEN a ELSE GCD(b, a % b)

\* np.sqrt(x1**2+x2**2), kept as its square
Hypot(x1, x2) == IF IsNaN(x1) \/ IsNaN(x2) THEN NaN ELSE Num(x1[1] * x1[1] + x2[1] * x2[1])

\* np.arctan2(y, x), kept as the direction (y, x) in lowest terms;
\* arctan2(0, 0) = 0 is the direction (0, 1)
Arctan2(y, x) ==
    IF IsNaN(y) \/ IsNaN(x) THEN NaN
    ELSE IF y[1] = 0 /\ x[1] = 0 THEN <<0, 1>>
    ELSE LET g == GCD(Abs(y[1]), Abs(x[1])) IN <<y[1] \div g, x[1] \div g>>

\* map - c, entry by entry
SubMap(map, c) == [j \in DOMAIN map |-> [k \in DOMAIN map[j] |-> Sub(map[j][k], c)]]

\* calculateSpotMapVectors with the angle taken column component first
calculateSpotMapVectors_colFirst(sm, center) ==
    LET numSpots == Len(sm.Q1map)
        x1map(i) == SubMap(sm.Q1map[i], Tick * center[1])
        x2map(i) == SubMap(sm.Q2map[i], Tick * center[2])
    IN  [Q1map |-> sm.Q1map,
         Q2map |-> sm.Q2map,
         VectorX1 |-> [i \in 1..numSpots |-> x1map(i)],
         VectorX2 |-> [i \in 1..numSpots |-> x2map(i)],
         VectorLength |-> [i \in 1..numSpots |->
             [j \in DOMAIN sm.Q1map[i] |-> [k \in DOMAIN sm.Q1map[i][j] |->
                 Hypot(x1map(i)[j][k], x2map(i)[j][k])]]],
         VectorAngle |-> [i \in 1..numSpots |->
             [j \in DOMAIN sm.Q1map[i] |-> [k \in DOMAIN sm.Q1map[i][j] |->
                 Arctan2(x2map(i)[j][k], x1map(i)[j][k])]]]]

\* calculateSpotMapVectors(spotMaps, center): center is given in pixels
calculateSpotMapVectors(sm, center) ==
    LET numSpots == Len(sm.Q1map)
        x1map(i) == SubMap(sm.Q1map[i], Tick * center[1])
        x2map(i) == SubMap(sm.Q2map[i], Tick * center[2])
    IN  [Q1map |-> sm.Q1map,
         Q2map |-> sm.Q2map,
         VectorX1 |-> [i \in 1..numSpots |-> x1map(i)],
         VectorX2 |-> [i \in 1..numSpots |-> x2map(i)],
         VectorLength |-> [i \in 1..numSpots |->
             [j \in DOMAIN sm.Q1map[i] |-> [k \in DOMAIN sm.Q1map[i][j] |->
                 Hypot(x1map(i)[j][k], x2map(i)[j][k])]]],
         VectorAngle |-> [i \in 1..numSpots |->
             [j \in DOMAIN sm.Q1map[i] |-> [k \in DOMAIN sm.Q1map[i][j] |->
                 Arctan2(x1map(i)[j][k], x2map(i)[j][k])]]]]

\* A bug one could make: spotMaps_updated=spotMaps, without .copy(): the
\* four keys are added to the dictionary passed in.
calculateSpotMapVectors_noCopy(sm, center) ==
    [spotMaps |-> calculateSpotMapVectors(sm, center),
     spotMaps_updated |-> calculateSpotMapVectors(sm, center)]

\* A call of calculateSpotMapVectors on the dictionary object sm: what the
\* object passed in holds afterwards and the object returned.
\* spotMaps_updated=spotMaps.copy() is a new dictionary with the entries of
\* sm; the four assignments add keys to it, bound to new arrays.
calculateSpotMapVectors_call(sm, center) ==
    [spotMaps |-> sm,
     spotMaps_updated |-> calculateSpotMapVectors(sm, center)]

\* --- the inputs the model draws ---
ScanShapes == {<<1, 2>>, <<2, 1>>, <<2, 2>>}     \* (N_x1, N_x2)
PatternShape == <<2, 3>>                          \* (N_k1, N_k2)
StartPeaks == {<<2, 1>>, <<1, 4>>}      \* the peak at position (0,0), in ticks

\* The peak moves and changes height from one scan position to the next.
ScanData(shape, a) ==
    [shape |-> shape \o PatternShape,
     pat |-> [j \in 0..(shape[1] - 1) |-> [k \in 0..(shape[2] - 1) |->
        [peak |-> <<(a[1] + j) % (Tick * PatternShape[1]),
                    (a[2] + 2 * k + j) % (Tick * PatternShape[2])>>,
         height |-> (MaxHeight + j + k) % (MaxHeight + 1)]]]]

\* Windows (x_min, x_max, y_min, y_max): three inside the pattern, two
\* inverted ones and three that leave the pattern.
WinSet == { <<0, 0, 1, 1>>, <<1, 2, 0, 1>>, <<0, 2, 0, 0>>,
            <<2, 1, 0, 1>>, <<0, 2, 1, 0>>,
            <<1, 3, 0, 1>>, <<0, 2, 0, 2>>, <<0, 2, -1, 1>> }
FullWin == <<0, PatternShape[2] - 1, 0, PatternShape[1] - 1>>
WinLists == { [i \in 1..n |-> IF i = n THEN w ELSE FullWin] : n \in 1..MaxSpots, w \in WinSet }

Methods == {"Nelder-Mead", "L-BFGS-B", "BFGS"}

Masks(shape) == [0..(shape[1] - 1) -> [0..(shape[2] - 1) -> BOOLEAN]]

InitSpots ==
    /\ unit = "get_spotMaps"
    /\ \E shape \in ScanShapes :
          /\ \E a \in StartPeaks : data4d_roi = ScanData(shape, a)
          /\ valid \in {<<>>} \cup { <<mk>> : mk \in Masks(shape) }
    /\ wins \in WinLists
    /\ method \in Methods
    /\ spotMaps = <<>> /\ visited = {} /\ peakQ = <<>> /\ coarse = <<>>
    /\ status = "ready" /\ spotMaps_upd = <<>>
    /\ f = <<>> /\ cftCall = <<>> /\ beamArgs = <<>> /\ bdisk_filter = <<>>
    /\ StrainIdle /\ CallsIdle

\* get_spotMaps, lines 449-467: the dictionary of nan maps, the default mask
SpotMapsSetup ==
    /\ unit = "get_spotMaps" /\ status = "ready"
    /\ spotMaps' = [Q1map |-> [s \in 1..Len(wins) |-> NanMap],
                    Q2map |-> [s \in 1..Len(wins) |-> NanMap]]
    /\ coarse' = [s \in 1..Len(wins) |->
                    [j \in 0..(N_x1 - 1) |-> [k \in 0..(N_x2 - 1) |-> <<>>]]]
    /\ status' = "sweep"
    /\ UNCHANGED <<unit, callVars, fourierVars, beamVars, spotInputs, visited, peakQ, spotMaps_upd,
                   strainVars>>

\* One pass of `for num_pos in ...` (lines 469-498).  The code takes the
\* positions of mask_pos in row-major order; the model takes them in any
\* order, the code's among them.
SpotMapsPosition ==
    /\ unit = "get_spotMaps" /\ status = "sweep"
    /\ \E pos \in mask_pos \ visited :
          /\ visited' = visited \cup {pos}
          /\ \E r \in {SweepWindows([maps |-> spotMaps, coarse |-> coarse,
                                       peakQ |-> peakQ, err |-> ""], 1, pos[1], pos[2])} :
                /\ spotMaps' = r.maps
                /\ coarse' = r.coarse
                /\ peakQ' = r.peakQ
                /\ status' = IF r.err = "" THEN "sweep" ELSE r.err
    /\ UNCHANGED <<unit, callVars, fourierVars, beamVars, spotInputs, spotMaps_upd, strainVars>>

\* lines 499-502: calculateSpotMapVectors and the return
SpotMapsReturn ==
    /\ unit = "get_spotMaps" /\ status = "sweep"
    /\ visited = mask_pos
    /\ status' = "returned"
    /\ \E call \in {calculateSpotMapVectors_call(spotMaps, <<N_k1 \div 2, N_k2 \div 2>>)} :
          /\ spotMaps' = call.spotMaps
          /\ spotMaps_upd' = <<call.spotMaps_updated>>
    /\ UNCHANGED <<unit, callVars, fourierVars, beamVars, spotInputs, visited, peakQ, coarse,
                   strainVars>>

NextSpots == SpotMapsSetup \/ SpotMapsPosition \/ SpotMapsReturn
SpecSpots == InitSpots /\ [][NextSpots]_vars

\* The body of get_spotMaps is sequential code: a statement that can run
\* does run (every call of the optimizer returns).
SpecSpotsFair == SpecSpots /\ WF_vars(NextSpots)

\* ------------------------------------------------------------------------
\* Claims about get_spotMaps
\* ------------------------------------------------------------------------
SpotFields == {"Q1map", "Q2map", "VectorX1", "VectorX2", "VectorLength", "VectorAngle"}
Spots == 1..Len(wins)

\* C1: after get_spotMaps has returned, every position where the mask is
\* false holds nan in Q1map, Q2map, VectorX1, VectorX2, VectorLength and
\* VectorAngle of every spot, and every returned map has shape (Nx1,Nx2).
C1_MaskedPositionsMissing ==
    (unit = "get_spotMaps" /\ status = "returned") =>
        \A fld \in SpotFields, s \in Spots :
            LET map == spotMaps_upd[1][fld][s] IN
            /\ DOMAIN map = 0..(N_x1 - 1)
            /\ \A j \in 0..(N_x1 - 1) :
                  /\ DOMAIN map[j] = 0..(N_x2 - 1)
                  /\ \A k \in 0..(N_x2 - 1) :
                        ~ValidMask[j][k] => IsNaN(map[j][k])

\* C1 witness: a returned 2 x 2 map of two spots under a mask that is false
\* at (0,1) and true at (1,0): nan at the first, a number at the second.
C1_Witness ==
    /\ unit = "get_spotMaps" /\ status = "returned"
    /\ valid # <<>> /\ Len(wins) = 2 /\ N_x1 = 2 /\ N_x2 = 2
    /\ ~valid[1][0][1] /\ valid[1][1][0]
    /\ IsNaN(spotMaps_upd[1].VectorLength[2][0][1])
    /\ ~IsNaN(spotMaps_upd[1].VectorLength[2][1][0])

\* A window (x_min, x_max, y_min, y_max) as the code reads it: columns
\* first.  It is invalid when a minimum exceeds its maximum or a bound
\* leaves the pattern.
InvalidWindow(w) ==
    \/ w[1] > w[2] \/ w[3] > w[4]
    \/ w[1] < 0 \/ w[2] >= N_k2
    \/ w[3] < 0 \/ w[4] >= N_k1

\* C5 as stated: with an invalid window get_spotMaps raises before the
\* first scan position is processed: no position is ever visited and no map
\* is returned.
C5_InvalidWindowRejected ==
    (unit = "get_spotMaps" /\ \E s \in Spots : InvalidWindow(wins[s])) =>
        (visited = {} /\ status # "returned")

\* What one visit computes for window s from the pattern at (j,k) alone.
SpotValue(j, k, s) ==
    LET p == data4d_roi.pat[j][k]
        sl == create_spotList(wins)
        q1 == sl.spotRangeQ1[s]
        q2 == sl.spotRangeQ2[s]
        Qmax == CoarseMax(ewpc2D(p, N_k1, N_k2),
                          SliceIdx(q1[1], q1[2] + 1, N_k1), SliceIdx(q2[1], q2[2] + 1, N_k2))
        x0 == <<Tick * Qmax[1], Tick * Qmax[2]>>
    IN  IF method = "Nelder-Mead" THEN fmin(p, q1, q2, x0)
        ELSE minimize(p, <<<<q1[1], q1[2] + 1>>, <<q2[1], q2[2] + 1>>>>, x0)

\* C7, get_spotMaps: while no error is raised, every visited position holds
\* for every spot the value computed from its own pattern and the windows,
\* and every other position holds nan: whatever the order of the visits,
\* the mask and the patterns at the other positions.
SpotsOrderIndependent ==
    (unit = "get_spotMaps" /\ status \in {"sweep", "returned"}) =>
        \A s \in Spots, pos \in Positions :
            IF pos \in visited
            THEN \E v \in {SpotValue(pos[1], pos[2], s)} :
                    /\ spotMaps.Q1map[s][pos[1]][pos[2]] = Num(v[1])
                    /\ spotMaps.Q2map[s][pos[1]][pos[2]] = Num(v[2])
            ELSE /\ IsNaN(spotMaps.Q1map[s][pos[1]][pos[2]])
                 /\ IsNaN(spotMaps.Q2map[s][pos[1]][pos[2]])

\* A window that lies inside the pattern whichever pair of entries is read
\* as the rows.
InsideEitherWay(w) ==
    /\ 0 <= w[1] /\ w[1] <= w[2] /\ w[2] < Min(N_k1, N_k2)
    /\ 0 <= w[3] /\ w[3] <= w[4] /\ w[4] < Min(N_k1, N_k2)

\* C8 as stated: the first two entries of a window bound the row coordinate
\* (Q1max, Q1map), the last two the column coordinate (Q2max, Q2map).
C8_FirstEntriesBoundRows ==
    (unit = "get_spotMaps" /\ status \in {"sweep", "returned"}) =>
        \A s \in Spots, pos \in visited :
            InsideEitherWay(wins[s]) =>
                LET Qmax == coarse[s][pos[1]][pos[2]][1] IN
                /\ wins[s][1] <= Qmax[1] /\ Qmax[1] <= wins[s][2]
                /\ wins[s][3] <= Qmax[2] /\ Qmax[2] <= wins[s][4]

\* C8 amended: a window is (q2_min, q2_max, q1_min, q1_max): its last two
\* entries bound the row coordinate q1 (Q1max, and with Nelder-Mead the
\* value stored in Q1map), its first two the column coordinate q2.
C8_LastEntriesBoundRows ==
    (unit = "get_spotMaps" /\ status \in {"sweep", "returned"}) =>
        \A s \in Spots, pos \in visited :
            ~InvalidWindow(wins[s]) =>
                LET Qmax == coarse[s][pos[1]][pos[2]][1]
                    q1 == spotMaps.Q1map[s][pos[1]][pos[2]][1]
                    q2 == spotMaps.Q2map[s][pos[1]][pos[2]][1]
                IN
                /\ wins[s][3] <= Qmax[1] /\ Qmax[1] <= wins[s][4]
                /\ wins[s][1] <= Qmax[2] /\ Qmax[2] <= wins[s][2]
                /\ method = "Nelder-Mead" =>
                      /\ Tick * wins[s][3] <= q1 /\ q1 <= Tick * wins[s][4]
                      /\ Tick * wins[s][1] <= q2 /\ q2 <= Tick * wins[s][2]

\* C8 witness: the window (0,0,1,1) visited: the coarse maximum is row 1,
\* column 0, and Nelder-Mead has stored row 1 (tick 2), column 0.
C8_Witness ==
    /\ unit = "get_spotMaps" /\ status = "sweep" /\ method = "Nelder-Mead"
    /\ wins = << <<0, 0, 1, 1>> >>
    /\ <<0, 0>> \in visited
    /\ coarse[1][0][0] = << <<1, 0>> >>
    /\ spotMaps.Q1map[1][0][0] = Num(Tick) /\ spotMaps.Q2map[1][0][0] = Num(0)

\* ------------------------------------------------------------------------
\* calculateStrainMap: exact values
\* ------------------------------------------------------------------------
\* Matrices are tuples of rows.  The strain quantities are irrational in
\* general; each is kept in a closed form over the integers:
\*   StrainVal(num, den, hsq, off)  is  num / (den * sqrt(hsq)) - off
\*   AxisVal(hsq, gsq, den, sgn)    is  (sqrt(hsq) + sgn*sqrt(gsq)) / (2*den) - 1
\*   an angle arctan2(y, x)         is  the direction (y, x) in lowest terms
StrainVal(num, den, hsq, off) == <<[num |-> num, den |-> den, hsq |-> hsq, off |-> off]>>
AxisVal(hsq, gsq, den, sgn) ==
    <<[hsq |-> hsq, gsq |-> gsq, den |-> den, sgn |-> IF gsq = 0 THEN 1 ELSE sgn]>>

\* the entries of np.zeros((N_x1, N_x2)), one form for each kind of field
ZeroStrain == StrainVal(0, 1, 1, 0)
ZeroAngle == <<0, 1>>
ZeroAxis == AxisVal(4, 0, 1, 1)
ZeroEigAngle == <<[tag |-> "zero", p |-> 0, b |-> 0, col |-> 0]>>

\* value = 0 ?
IsZeroStrain(v) ==
    IF v[1].off = 0 THEN v[1].num = 0
    ELSE /\ v[1].num > 0
         /\ v[1].num * v[1].num = v[1].off * v[1].off * v[1].den * v[1].den * v[1].hsq
IsZeroAxis(v) == v[1].gsq = 0 /\ v[1].hsq = 4 * v[1].den * v[1].den

StrainFields == {"Eps11", "Eps22", "Eps12", "Theta", "majAx", "minAx", "strainAngle"}

\* A bug one could make: strainAngle forgotten in the nan branch.
MissingOutputs_angleKept ==
    [Eps11 |-> NaN, Eps22 |-> NaN, Eps12 |-> NaN, Theta |-> NaN,
     majAx |-> NaN, minAx |-> NaN, strainAngle |-> ZeroEigAngle]

\* lines 723-729: the seven fields set to np.nan
MissingOutputs ==
    [Eps11 |-> NaN, Eps22 |-> NaN, Eps12 |-> NaN, Theta |-> NaN,
     majAx |-> NaN, minAx |-> NaN, strainAngle |-> NaN]

\* the seven fields of a pixel the sweep has not reached (np.zeros)
ZeroOutputs ==
    [Eps11 |-> ZeroStrain, Eps22 |-> ZeroStrain, Eps12 |-> ZeroStrain, Theta |-> ZeroAngle,
     majAx |-> ZeroAxis, minAx |-> ZeroAxis, strainAngle |-> ZeroEigAngle]

Det2(m) == m[1][1] * m[2][2] - m[1][2] * m[2][1]
Sign(x) == IF x < 0 THEN -1 ELSE IF x > 0 THEN 1 ELSE 0

\* A bug one could make: a pseudo-inverse, which never fails.
LinAlgInv_pinv(R) ==
    [singular |-> FALSE,
     adj |-> <<<<R[2][2], -R[1][2]>>, <<-R[2][1], R[1][1]>>>>,
     det |-> IF Det2(R) = 0 THEN 1 ELSE Det2(R)]

\* A bug one could make: the adjugate transposed.
LinAlgInv_transposed(R) ==
    [singular |-> Det2(R) = 0,
     adj |-> <<<<R[2][2], -R[2][1]>>, <<-R[1][2], R[1][1]>>>>,
     det |-> Det2(R)]

\* np.linalg.inv(refPoints): the adjugate over the determinant; LinAlgError
\* for a singular matrix.
LinAlgInv(R) ==
    [singular |-> Det2(R) = 0,
     adj |-> <<<<R[2][2], -R[1][2]>>, <<-R[2][1], R[1][1]>>>>,
     det |-> Det2(R)]

\* np.matmul(A, B) for B 2 x 2
MatMul(A, B) ==
    [i \in 1..Len(A) |-> <<A[i][1] * B[1][1] + A[i][2] * B[2][1],
                           A[i][1] * B[1][2] + A[i][2] * B[2][2]>>]

\* A bug one could make: the rotation of the proper case taken for every M.
polar_alwaysProper(n, side) ==
    LET a == n[1][1]
        b == n[1][2]
        c == n[2][1]
        d == n[2][2]
        dN == a * d - b * c
        sq == a * a + b * b + c * c + d * d
    IN  [r |-> [a00 |-> a + d, a10 |-> c - b, det |-> 1],
         p |-> IF side = "right"
               THEN <<<<a * a + c * c + Abs(dN), a * b + c * d>>,
                      <<a * b + c * d, b * b + d * d + Abs(dN)>>>>
               ELSE <<<<a * a + b * b + Abs(dN), a * c + b * d>>,
                      <<a * c + b * d, c * c + d * d + Abs(dN)>>>>,
         hsq |-> sq + 2 * Abs(dN),
         gsq |-> sq - 2 * Abs(dN)]

\* linalg.polar(M, side) for the 2 x 2 matrix M = n / den, den > 0.  With
\* n = [[a,b],[c,d]], dN = det n and h = sqrt(a^2+b^2+c^2+d^2 + 2|dN|), the
\* sum of the singular values of n:
\*   the stretch is p / (den h) with p = n^T n + |dN| I on the right,
\*                                   p = n n^T + |dN| I on the left;
\*   the orthogonal factor (scipy takes W Vh from the SVD, with the
\*   determinant of M's sign) is [[a+d, b-c],[c-b, a+d]]/h for dN > 0 and
\*   [[a-d, b+c],[b+c, d-a]]/h for dN < 0; for dN = 0 it is whatever the SVD
\*   returns: det 0 marks it as not determined.
\* The result is [r, p, hsq, gsq]: r = [a00, a10, det] holds h r[0,0],
\* h r[1,0] and det r; hsq = h^2; gsq = g^2, g the difference of the
\* singular values of n.
polar(n, side) ==
    LET a == n[1][1]
        b == n[1][2]
        c == n[2][1]
        d == n[2][2]
        dN == a * d - b * c
        sq == a * a + b * b + c * c + d * d
    IN  [r |-> IF dN > 0 THEN [a00 |-> a + d, a10 |-> c - b, det |-> 1]
               ELSE IF dN < 0 THEN [a00 |-> a - d, a10 |-> b + c, det |-> -1]
               ELSE [a00 |-> 0, a10 |-> 0, det |-> 0],
         p |-> IF side = "right"
               THEN <<<<a * a + c * c + Abs(dN), a * b + c * d>>,
                      <<a * b + c * d, b * b + d * d + Abs(dN)>>>>
               ELSE <<<<a * a + b * b + Abs(dN), a * c + b * d>>,
                      <<a * c + b * d, c * c + d * d + Abs(dN)>>>>,
         hsq |-> sq + 2 * Abs(dN),
         gsq |-> sq - 2 * Abs(dN)]

\* x > y for two eigenvalues x, y of one matrix
AxisGreater(x, y) == x[1].sgn = 1 /\ y[1].sgn = -1

\* np.arctan2(eigvec[0,col], eigvec[1,col]), named by the matrix of
\* eigenvectors and the column
ColumnAngle(eigvec, col) ==
    <<[tag |-> eigvec.tag, p |-> eigvec.p, b |-> eigvec.b, col |-> col]>>

\* np.linalg.eig(strain_mat) for the symmetric strain_mat = p/(den h) - I =
\* [[e11,e12],[e12,e22]].  Its eigenvalues are (h + g)/(2 den) - 1 and
\* (h - g)/(2 den) - 1.  LAPACK's 2 x 2 step (dlanv2) leaves a diagonal
\* matrix alone: the diagonal in its order, the unit vectors ("axis");
\* otherwise it returns first the eigenvalue e22 + z, z = q + sign(q)
\* sqrt(q^2 + e12^2), q = (e11-e22)/2 (sign(0) = 1), with the eigenvector
\* (z, e12), named "eig" with (2q, 2 e12) in lowest terms.  Either way the
\* first eigenvalue is the larger one exactly when e11 >= e22.
np_linalg_eig(p, hsq, gsq, den) ==
    LET p2 == p[1][1] - p[2][2]
        g == GCD(Abs(p2), 2 * Abs(p[1][2]))
        sgn0 == IF p2 >= 0 THEN 1 ELSE -1
    IN  [eigval |-> <<AxisVal(hsq, gsq, den, sgn0), AxisVal(hsq, gsq, den, -sgn0)>>,
         eigvec |-> IF p[1][2] = 0 THEN [tag |-> "axis", p |-> 0, b |-> 0]
                    ELSE [tag |-> "eig", p |-> p2 \div g, b |-> (2 * p[1][2]) \div g]]

\* A bug one could make: minAx set to the larger eigenvalue as well.
AxesOf_bothMajor(eigval) ==
    IF AxisGreater(eigval[1], eigval[2])
    THEN [majAx |-> eigval[1], minAx |-> eigval[1]]
    ELSE [majAx |-> eigval[2], minAx |-> eigval[2]]

\* lines 757-764: majAx and minAx by the test eigval[0] > eigval[1]
AxesOf(eigval) ==
    IF AxisGreater(eigval[1], eigval[2])
    THEN [majAx |-> eigval[1], minAx |-> eigval[2]]
    ELSE [majAx |-> eigval[2], minAx |-> eigval[1]]

\* Lines 736-764 for M = n / den, den > 0: both polar decompositions (r of
\* the second is kept), strain_mat by latticeCoords, the outputs.
PolarOutputs(n, den, latticeCoords) ==
    LET ru == polar(n, "right")
        rv == polar(n, "left")
        r == rv.r
        stretch == IF latticeCoords = 1 THEN ru ELSE rv     \* strain_mat + I
        hs == IF stretch.hsq = 0 THEN 1 ELSE stretch.hsq    \* n = 0: the stretch is 0
        e == np_linalg_eig(stretch.p, stretch.hsq, stretch.gsq, den)
    IN  [Eps11 |-> StrainVal(stretch.p[1][1], den, hs, 1),
         Eps22 |-> StrainVal(stretch.p[2][2], den, hs, 1),
         Eps12 |-> StrainVal(stretch.p[1][2], den, hs, 0),
         Theta |-> IF r.det = 0 THEN <<0, 0>> ELSE Arctan2(Num(r.a10), Num(r.a00)),
         majAx |-> AxesOf(e.eigval).majAx,
         minAx |-> AxesOf(e.eigval).minAx,
         \* np.arctan2(eigvec[0,0], eigvec[1,0]) in both branches
         strainAngle |-> ColumnAngle(e.eigvec, 0)]

\* Lines 710-764 at one pixel: from the spot vectors there (dataPoints, one
\* row per spot of spotRef), refPoints and latticeCoords to
\* [err, out, M]: the error raised (or ""), the seven fields, <<M>>.
PixelStrain(dataPoints, refPoints, latticeCoords) ==
    IF \E s \in 1..Len(dataPoints) : IsNaN(dataPoints[s][1]) \/ IsNaN(dataPoints[s][2])
    THEN [err |-> "", out |-> MissingOutputs, M |-> <<>>]
    ELSE
      LET inv == LinAlgInv(refPoints) IN
      IF inv.singular
      THEN [err |-> "LinAlgError", out |-> ZeroOutputs, M |-> <<>>]
      ELSE
        LET dataPoints_array == [s \in 1..Len(dataPoints) |->
                                    <<dataPoints[s][1][1], dataPoints[s][2][1]>>]
            n == MatMul(dataPoints_array, inv.adj)     \* M = n / inv.det
            M == <<[n |-> n, den |-> inv.det]>>
        IN
        IF Len(dataPoints) # 2
        \* r, v have one row per spot: E[j,k,:,:] = strain_mat (v - np.eye(2)
        \* for the left side) or R[j,k,:,:] = r cannot be broadcast
        THEN [err |-> "ValueError", out |-> ZeroOutputs, M |-> M]
        ELSE [err |-> "", M |-> M,
              out |-> PolarOutputs([i \in 1..2 |-> <<Sign(inv.det) * n[i][1],
                                                     Sign(inv.det) * n[i][2]>>],
                                   Abs(inv.det), latticeCoords)]

\* ------------------------------------------------------------------------
\* calculateStrainMap: the sweep
\* ------------------------------------------------------------------------
S_x1 == Cardinality(DOMAIN strainArgs[1].spotMaps.Q1map[1])
S_x2 == Cardinality(DOMAIN strainArgs[1].spotMaps.Q1map[1][0])
Pixels == (0..(S_x1 - 1)) \X (0..(S_x2 - 1))
\* num = len(spotRef['id'])
num == Len(strainArgs[1].spotRef.id)
\* refPoints = np.array([spotRef['point'][0], spotRef['point'][1]])
refPoints == <<strainArgs[1].spotRef.point[1], strainArgs[1].spotRef.point[2]>>

\* dataPoints at (j,k): [q1c, q2c] for s in range(num)
DataPointsAt(sm, n, j, k) ==
    [s \in 1..n |-> <<sm.VectorX1[s][j][k], sm.VectorX2[s][j][k]>>]

\* --- the inputs the model draws ---
\* reference points are RefScale times a small integer vector: the
\* hypotenuse of the 3-4-5 triangle, so that a rotation by atan(3/4) is exact
RefScale == 1 + 4
MaxShear == 1     \* shears and stretches of 1..MaxShear parts in RefScale

\* The first two reference points (in units of RefScale): orthonormal,
\* oblique, of unequal length, mirrored, and two collinear pairs.
RefPairs == { << <<1, 0>>, <<0, 1>> >>, << <<1, 0>>, <<1, 1>> >>, << <<2, 0>>, <<0, 1>> >>,
              << <<0, 1>>, <<1, 0>> >>, << <<1, 1>>, <<2, 2>> >>, << <<0, 0>>, <<1, 0>> >> }
ThirdRef == <<1, 1>>

\* What a pixel holds: the reference vectors transformed by A / RefScale
\* (rotations by 90, 180 degrees and by atan(3/4), a mirror image, a
\* collapse onto a line, stretches along the first axis, shears, stretches
\* along the second axis), or a missing value in one spot.
Transforms ==
    << <<<<5, 0>>, <<0, 5>>>>, <<<<0, -5>>, <<5, 0>>>>, <<<<4, -3>>, <<3, 4>>>>,
       <<<<-5, 0>>, <<0, -5>>>>, <<<<5, 0>>, <<0, -5>>>>, <<<<5, 0>>, <<0, 0>>>> >>
    \o [t \in 1..MaxShear |-> <<<<5 + t, 0>>, <<0, 5>>>>]
    \o [t \in 1..MaxShear |-> <<<<5, t>>, <<0, 5>>>>]
    \o [t \in 1..MaxShear |-> <<<<5, 0>>, <<0, 5 + t>>>>]
NumKinds == Len(Transforms) + 3     \* and three ways of missing

\* the vector of spot s at a pixel of kind kd
KindVector(kd, s, r0) ==
    IF kd <= Len(Transforms)
    THEN LET A == Transforms[kd] IN
         <<Num(A[1][1] * r0[1] + A[1][2] * r0[2]), Num(A[2][1] * r0[1] + A[2][2] * r0[2])>>
    ELSE LET miss == kd - Len(Transforms) IN     \* 1, 2, 3: the spot with the nan
         <<IF miss = s /\ s # 2 THEN NaN ELSE Num(RefScale * r0[1]),
           IF miss = s /\ s = 2 THEN NaN ELSE Num(RefScale * r0[2])>>

StrainShapes == {<<1, 2>>, <<2, 2>>}
KindSteps == {0, 1, 4}

\* pixel (j,k) is of kind t0 + step * (its row-major index), cyclically
StrainInput(shape, refs, t0, step, lc) ==
    LET kindAt(j, k) == ((t0 + step * (j * shape[2] + k)) % NumKinds) + 1
        vec(s, j, k) == KindVector(kindAt(j, k), s, refs[s])
        X(c) == [s \in 1..Len(refs) |-> [j \in 0..(shape[1] - 1) |->
                    [k \in 0..(shape[2] - 1) |-> vec(s, j, k)[c]]]]
    IN  [spotMaps |-> [Q1map |-> X(1), VectorX1 |-> X(1), VectorX2 |-> X(2)],
         spotRef |-> [id |-> [s \in 1..Len(refs) |-> s - 1],
                      point |-> [s \in 1..Len(refs) |->
                                    <<RefScale * refs[s][1], RefScale * refs[s][2]>>]],
         latticeCoords |-> lc]

InitStrain ==
    /\ unit = "calculateStrainMap"
    /\ \E shape \in StrainShapes, rp \in RefPairs, third \in BOOLEAN,
          t0 \in 0..(NumKinds - 1), step \in KindSteps, lc \in {0, 1} :
          strainArgs = <<StrainInput(shape, IF third THEN rp \o <<ThirdRef>> ELSE rp,
                                     t0, step, lc)>>
    /\ StrainComponents = <<>> /\ Mlocal = <<>> /\ done = {}
    /\ strainStatus = "ready"
    /\ f = <<>> /\ cftCall = <<>> /\ beamArgs = <<>> /\ bdisk_filter = <<>>
    /\ SpotsIdle /\ CallsIdle

\* lines 695-706: the seven maps of zeros, the reference points
StrainSetup ==
    /\ unit = "calculateStrainMap" /\ strainStatus = "ready"
    /\ StrainComponents' = [fld \in StrainFields |->
            [j \in 0..(S_x1 - 1) |-> [k \in 0..(S_x2 - 1) |-> ZeroOutputs[fld]]]]
    /\ Mlocal' = [j \in 0..(S_x1 - 1) |-> [k \in 0..(S_x2 - 1) |-> <<>>]]
    /\ strainStatus' = "sweep"
    /\ UNCHANGED <<unit, callVars, fourierVars, beamVars, spotVars, strainArgs, done>>

\* One pass of the body of `for j ...: for k ...` (lines 710-764).  The
\* code takes the pixels in row-major order; the model takes them in any
\* order, the code's among them.
StrainPixel ==
    /\ unit = "calculateStrainMap" /\ strainStatus = "sweep"
    /\ \E pix \in Pixels \ done :
          \E r \in {PixelStrain(DataPointsAt(strainArgs[1].spotMaps, num, pix[1], pix[2]),
                                refPoints, strainArgs[1].latticeCoords)} :
              /\ StrainComponents' =
                    IF r.err # "" THEN StrainComponents
                    ELSE [fld \in StrainFields |->
                            [StrainComponents[fld] EXCEPT ![pix[1]][pix[2]] = r.out[fld]]]
              /\ Mlocal' = [Mlocal EXCEPT ![pix[1]][pix[2]] = r.M]
              /\ strainStatus' = IF r.err = "" THEN "sweep" ELSE r.err
              /\ done' = done \cup {pix}
    /\ UNCHANGED <<unit, callVars, fourierVars, beamVars, spotVars, strainArgs>>

\* line 766: return StrainComponents
StrainReturn ==
    /\ unit = "calculateStrainMap" /\ strainStatus = "sweep"
    /\ done = Pixels
    /\ strainStatus' = "returned"
    /\ UNCHANGED <<unit, callVars, fourierVars, beamVars, spotVars, strainArgs, StrainComponents,
                   Mlocal, done>>

NextStrain == StrainSetup \/ StrainPixel \/ StrainReturn
SpecStrain == InitStrain /\ [][NextStrain]_vars

\* ------------------------------------------------------------------------
\* makeRelativeSpotReference, makeRelativeSpotReference_median
\* ------------------------------------------------------------------------
\* A mean or median is the fraction <<n, d>> in lowest terms, d > 0.
Frac(n, d) == LET g == GCD(Abs(n), d) IN <<n \div g, d \div g>>

\* The numbers of map[ref_roi[0]:ref_roi[1], ref_roi[2]:ref_roi[3]], the nan
\* left out, as a sequence in row-major order.
RoiNumbers(map, ref_roi) ==
    LET nRows == Cardinality(DOMAIN map)
        nCols == Cardinality(DOMAIN map[0])
        rows == SliceIdx(ref_roi[1], ref_roi[2], nRows)
        cols == SliceIdx(ref_roi[3], ref_roi[4], nCols)
        flat == [i \in 1..(Len(rows) * Len(cols)) |->
                    map[rows[((i - 1) \div Len(cols)) + 1]][cols[((i - 1) % Len(cols)) + 1]]]
    IN  SelectSeq(flat, LAMBDA x : ~IsNaN(x))

RECURSIVE SeqSum(_)
SeqSum(v) == IF v = <<>> THEN 0 ELSE v[1][1] + SeqSum(Tail(v))

\* np.nanmean of a slice: nan (and a RuntimeWarning) when no number is left
np_nanmean(v) == IF v = <<>> THEN NaN ELSE Frac(SeqSum(v), Len(v))

\* the k-th smallest entry of v
KthSmallest(v, k) ==
    CHOOSE x \in { v[i][1] : i \in 1..Len(v) } :
        /\ Cardinality({ i \in 1..Len(v) : v[i][1] < x }) < k
        /\ Cardinality({ i \in 1..Len(v) : v[i][1] <= x }) >= k

\* np.nanmedian of a slice: the middle entry, or the mean of the two middle
\* entries
np_nanmedian(v) ==
    IF v = <<>> THEN NaN
    ELSE IF Len(v) % 2 = 1 THEN Frac(KthSmallest(v, (Len(v) + 1) \div 2), 1)
    ELSE Frac(KthSmallest(v, Len(v) \div 2) + KthSmallest(v, (Len(v) \div 2) + 1), 2)

\* makeRelativeSpotReference(spotMaps, ref_roi)
makeRelativeSpotReference(sm, ref_roi) ==
    [id |-> [i \in 1..Len(sm.Q1map) |-> i - 1],
     point |-> [i \in 1..Len(sm.Q1map) |->
                  <<np_nanmean(RoiNumbers(sm.VectorX1[i], ref_roi)),
                    np_nanmean(RoiNumbers(sm.VectorX2[i], ref_roi))>>]]

\* makeRelativeSpotReference_median(spotMaps, ref_roi)
makeRelativeSpotReference_median(sm, ref_roi) ==
    [id |-> [i \in 1..Len(sm.Q1map) |-> i - 1],
     point |-> [i \in 1..Len(sm.Q1map) |->
                  <<np_nanmedian(RoiNumbers(sm.VectorX1[i], ref_roi)),
                    np_nanmedian(RoiNumbers(sm.VectorX2[i], ref_roi))>>]]

\* ref_roi = [x_i, x_f, y_i, y_f]: one pixel, the whole scan, the first
\* row, the second row, an empty region
RefRois == { <<0, 1, 0, 1>>, <<0, 2, 0, 2>>, <<0, 1, 0, 2>>, <<1, 2, 0, 2>>, <<1, 1, 0, 2>> }

InitReference ==
    /\ unit = "makeRelativeSpotReference"
    /\ \E shape \in StrainShapes, rp \in RefPairs, t0 \in 0..(NumKinds - 1),
          roi \in RefRois, med \in BOOLEAN :
          refArgs = <<[spotMaps |-> StrainInput(shape, rp, t0, 1, 0).spotMaps,
                       ref_roi |-> roi, median |-> med]>>
    /\ refOut = <<>>
    /\ f = <<>> /\ cftCall = <<>> /\ beamArgs = <<>> /\ bdisk_filter = <<>>
    /\ SpotsIdle /\ StrainIdle /\ EwpcIdle /\ ConIdle

\* one call of makeRelativeSpotReference or makeRelativeSpotReference_median
MakeReferenceCall ==
    /\ unit = "makeRelativeSpotReference"
    /\ refOut = <<>>
    /\ refOut' = <<IF refArgs[1].median
                   THEN makeRelativeSpotReference_median(refArgs[1].spotMaps, refArgs[1].ref_roi)
                   ELSE makeRelativeSpotReference(refArgs[1].spotMaps, refArgs[1].ref_roi)>>
    /\ UNCHANGED <<unit, refArgs, ewpcVars, conVars, fourierVars, beamVars, spotVars, strainVars>>

NextReference == MakeReferenceCall
SpecReference == InitReference /\ [][NextReference]_vars

\* get_spotMaps and calculateStrainMap, the two sweeps over the scan
InitSweeps == InitSpots \/ InitStrain
NextSweeps ==
    \/ SpotMapsSetup \/ SpotMapsPosition \/ SpotMapsReturn
    \/ StrainSetup \/ StrainPixel \/ StrainReturn
SpecSweeps == InitSweeps /\ [][NextSweeps]_vars

\* the functions that take the data, the SpotMap or the reference
InitAnalysis == InitSpots \/ InitReference \/ InitStrain
NextAnalysis ==
    \/ SpotMapsSetup \/ SpotMapsPosition \/ SpotMapsReturn
    \/ MakeReferenceCall
    \/ StrainSetup \/ StrainPixel \/ StrainReturn
SpecAnalysis == InitAnalysis /\ [][NextAnalysis]_vars

\* ------------------------------------------------------------------------
\* Claims about calculateStrainMap
\* ------------------------------------------------------------------------
InStrain == unit = "calculateStrainMap" /\ strainStatus # "ready"

\* VectorX1 or VectorX2 of a contributing spot is missing at pix
MissingAt(pix) ==
    \E s \in 1..num : \/ IsNaN(strainArgs[1].spotMaps.VectorX1[s][pix[1]][pix[2]])
                      \/ IsNaN(strainArgs[1].spotMaps.VectorX2[s][pix[1]][pix[2]])

\* the seven fields at pix
OutputsAt(sc, pix) == [fld \in StrainFields |-> sc[fld][pix[1]][pix[2]]]

\* C2: whenever calculateStrainMap processes a pixel at which VectorX1 or
\* VectorX2 of a contributing spot is missing, it sets all seven output
\* fields to nan there, raises nothing (the sweep goes on), and leaves the
\* seven fields at every other pixel as they were; and the nan stays there
\* for the rest of the sweep.
C2_MissingPixelSkipped ==
    /\ [](InStrain => \A pix \in done :
              MissingAt(pix) => \A fld \in StrainFields : IsNaN(StrainComponents[fld][pix[1]][pix[2]]))
    /\ [][(unit = "calculateStrainMap" /\ strainStatus = "sweep") =>
              \A pix \in done' \ done :
                  MissingAt(pix) =>
                      /\ strainStatus' = "sweep"
                      /\ \A fld \in StrainFields : IsNaN(StrainComponents'[fld][pix[1]][pix[2]])
                      /\ \A other \in Pixels \ {pix} :
                            OutputsAt(StrainComponents', other) = OutputsAt(StrainComponents, other)
          ]_vars

\* C2 witness: a returned 2 x 2 map of two spots: (0,0) had a missing
\* vector and holds nan, (0,1), processed in the same sweep, holds numbers.
C2_Witness ==
    /\ unit = "calculateStrainMap" /\ strainStatus = "returned"
    /\ num = 2 /\ S_x1 = 2 /\ S_x2 = 2
    /\ MissingAt(<<0, 0>>) /\ ~MissingAt(<<0, 1>>)
    /\ OutputsAt(StrainComponents, <<0, 0>>) = MissingOutputs
    /\ \A fld \in StrainFields : ~IsNaN(StrainComponents[fld][0][1])

\* the spot vectors of spots 0 and 1 at pix are the two reference points
SelfReferenceAt(pix) ==
    \A s \in 1..2 :
        /\ strainArgs[1].spotMaps.VectorX1[s][pix[1]][pix[2]] = Num(strainArgs[1].spotRef.point[s][1])
        /\ strainArgs[1].spotMaps.VectorX2[s][pix[1]][pix[2]] = Num(strainArgs[1].spotRef.point[s][2])

\* M = n / den is the 2 x 2 identity
IsIdentity(M) ==
    /\ M # <<>> /\ Len(M[1].n) = 2
    /\ M[1].n = <<<<M[1].den, 0>>, <<0, M[1].den>>>>

\* C3: with two reference points, linearly independent, and a SpotMap whose
\* vectors of spots 0 and 1 equal them at every pixel, calculateStrainMap
\* raises nothing, computes M = identity at every pixel it processes and
\* writes Eps11 = Eps22 = Eps12 = 0, Theta = 0, majAx = minAx = 0 there.
C3_SelfReferenceZeroStrain ==
    (InStrain /\ num = 2 /\ Det2(refPoints) # 0 /\ \A pix \in Pixels : SelfReferenceAt(pix)) =>
        /\ strainStatus \in {"sweep", "returned"}
        /\ \A pix \in done :
              /\ IsIdentity(Mlocal[pix[1]][pix[2]])
              /\ IsZeroStrain(StrainComponents.Eps11[pix[1]][pix[2]])
              /\ IsZeroStrain(StrainComponents.Eps22[pix[1]][pix[2]])
              /\ IsZeroStrain(StrainComponents.Eps12[pix[1]][pix[2]])
              /\ StrainComponents.Theta[pix[1]][pix[2]] = ZeroAngle
              /\ IsZeroAxis(StrainComponents.majAx[pix[1]][pix[2]])
              /\ IsZeroAxis(StrainComponents.minAx[pix[1]][pix[2]])

\* C3 witness: the oblique reference (5,0), (5,5) against a 2 x 2 SpotMap
\* that equals it everywhere, swept and returned.
C3_Witness ==
    /\ unit = "calculateStrainMap" /\ strainStatus = "returned"
    /\ num = 2 /\ S_x1 = 2 /\ S_x2 = 2
    /\ refPoints = <<<<RefScale, 0>>, <<RefScale, RefScale>>>>
    /\ \A pix \in Pixels : SelfReferenceAt(pix) /\ IsIdentity(Mlocal[pix[1]][pix[2]])

\* rotations by an angle with cosine c / RefScale and sine s / RefScale
Rotations == {cs \in (-RefScale..RefScale) \X (-RefScale..RefScale) :
                 cs[1] * cs[1] + cs[2] * cs[2] = RefScale * RefScale}

\* each of the two spot vectors at pix is its reference vector rotated by cs
RotatedAt(pix, cs) ==
    \A s \in 1..2 :
        LET r == strainArgs[1].spotRef.point[s] IN
        /\ strainArgs[1].spotMaps.VectorX1[s][pix[1]][pix[2]]
              = Num((cs[1] * r[1] - cs[2] * r[2]) \div RefScale)
        /\ strainArgs[1].spotMaps.VectorX2[s][pix[1]][pix[2]]
              = Num((cs[2] * r[1] + cs[1] * r[2]) \div RefScale)

\* C4 as stated: for every linearly independent pair of reference points
\* and every rotation, a pixel whose two spot vectors are the reference
\* vectors rotated by theta gets Eps11 = Eps22 = Eps12 = 0 and Theta equal
\* to theta or -theta.
C4_RotationGivesZeroStrain ==
    (InStrain /\ num = 2 /\ Det2(refPoints) # 0) =>
        \A pix \in done, cs \in Rotations :
            RotatedAt(pix, cs) =>
                /\ IsZeroStrain(StrainComponents.Eps11[pix[1]][pix[2]])
                /\ IsZeroStrain(StrainComponents.Eps22[pix[1]][pix[2]])
                /\ IsZeroStrain(StrainComponents.Eps12[pix[1]][pix[2]])
                /\ StrainComponents.Theta[pix[1]][pix[2]]
                      \in {Arctan2(Num(cs[2]), Num(cs[1])), Arctan2(Num(-cs[2]), Num(cs[1]))}

\* the first two reference points are collinear with the origin
SingularReference == Det2(refPoints) = 0

\* C6 as stated: with a singular reference calculateStrainMap never returns
\* a strain map, whatever the SpotMap.
C6_SingularAlwaysRaises ==
    (unit = "calculateStrainMap" /\ SingularReference) => strainStatus # "returned"

\* C6 amended: with a singular reference calculateStrainMap raises
\* LinAlgError at the first pixel it processes where no contributing spot
\* is missing, and then returns no map; the pixels with a missing spot are
\* passed without the inverse being taken, so that a SpotMap with a missing
\* spot at every pixel is returned as a map of nan.
C6_SingularRaisesAtFirstDataPixel ==
    (InStrain /\ SingularReference) =>
        /\ strainStatus \in {"sweep", "returned", "LinAlgError"}
        /\ (strainStatus = "LinAlgError") = (\E pix \in done : ~MissingAt(pix))
        /\ (\E pix \in Pixels : ~MissingAt(pix)) => strainStatus # "returned"
        /\ strainStatus = "returned" =>
              \A pix \in Pixels : OutputsAt(StrainComponents, pix) = MissingOutputs

\* C6 witness: the collinear reference (5,5), (10,10): a pixel with a
\* missing spot has been passed, and the next pixel has raised LinAlgError.
C6_Witness ==
    /\ unit = "calculateStrainMap" /\ strainStatus = "LinAlgError"
    /\ refPoints = <<<<RefScale, RefScale>>, <<2 * RefScale, 2 * RefScale>>>>
    /\ done = {<<0, 0>>, <<0, 1>>}
    /\ MissingAt(<<0, 0>>) /\ ~MissingAt(<<0, 1>>)
    /\ OutputsAt(StrainComponents, <<0, 0>>) = MissingOutputs

\* C7, calculateStrainMap: while no error is raised, every processed pixel
\* holds in the seven fields the values computed from the spot vectors at
\* that pixel and the reference alone, and every other pixel holds the
\* initial zero: whatever the order of the pixels and the values elsewhere.
StrainOrderIndependent ==
    (unit = "calculateStrainMap" /\ strainStatus \in {"sweep", "returned"}) =>
        \A pix \in Pixels :
            OutputsAt(StrainComponents, pix) =
                IF pix \in done
                THEN PixelStrain(DataPointsAt(strainArgs[1].spotMaps, num, pix[1], pix[2]),
                                 refPoints, strainArgs[1].latticeCoords).out
                ELSE ZeroOutputs

\* C7: the values get_spotMaps and calculateStrainMap write at (j,k) depend
\* only on the inputs at (j,k) and on the windows / the reference: in every
\* order of processing, under every mask and with every data elsewhere, a
\* processed position holds the value computed from its own inputs.
C7_OrderIndependent == SpotsOrderIndependent /\ StrainOrderIndependent

\* C7 witness: a 2 x 2 strain sweep that has taken the last pixel first:
\* (1,1) holds its values (a shear: Eps12 is not zero), the others the
\* initial zeros.
C7_Witness ==
    /\ unit = "calculateStrainMap" /\ strainStatus = "sweep"
    /\ done = {<<1, 1>>} /\ Pixels # done
    /\ ~MissingAt(<<1, 1>>)
    /\ ~IsZeroStrain(StrainComponents.Eps12[1][1])
    /\ \A pix \in Pixels \ done : OutputsAt(StrainComponents, pix) = ZeroOutputs

\* C13 as stated: with more than two spots (and an invertible reference
\* pair) calculateStrainMap raises nothing, and every processed pixel at
\* which no spot is missing holds the seven outputs computed from spots 0
\* and 1 alone.
C13_ExtraSpotsIgnored ==
    (InStrain /\ num > 2 /\ ~SingularReference) =>
        /\ strainStatus \in {"sweep", "returned"}
        /\ \A pix \in done :
              ~MissingAt(pix) =>
                  OutputsAt(StrainComponents, pix) =
                      PixelStrain(DataPointsAt(strainArgs[1].spotMaps, 2, pix[1], pix[2]),
                                  refPoints, strainArgs[1].latticeCoords).out

\* the seven fields at pix were computed (not nan, no error)
ComputedAt(pix) ==
    /\ pix \in done /\ ~MissingAt(pix)
    /\ Mlocal[pix[1]][pix[2]] # <<>> /\ Len(Mlocal[pix[1]][pix[2]][1].n) = 2

\* M at pix as n / den with den > 0
NormalisedAt(pix) ==
    LET M == Mlocal[pix[1]][pix[2]][1]
    IN  [n |-> [i \in 1..2 |-> <<Sign(M.den) * M.n[i][1], Sign(M.den) * M.n[i][2]>>],
         den |-> Abs(M.den)]

\* the polar decomposition whose stretch gives strain_mat at pix
StretchAt(pix) ==
    polar(NormalisedAt(pix).n, IF strainArgs[1].latticeCoords = 1 THEN "right" ELSE "left")

\* np.linalg.eig(strain_mat) at pix
EigAt(pix) ==
    np_linalg_eig(StretchAt(pix).p, StretchAt(pix).hsq, StretchAt(pix).gsq,
                  NormalisedAt(pix).den)

\* C18 as stated: at every computed pixel strainAngle is the angle of the
\* eigenvector column that belongs to the larger eigenvalue (either column
\* when the eigenvalues are equal), whichever column that is.
C18_AngleFromMajorAxis ==
    InStrain =>
        \A pix \in done :
            ComputedAt(pix) =>
                \E col \in {0, 1} :
                    /\ StrainComponents.strainAngle[pix[1]][pix[2]]
                          = ColumnAngle(EigAt(pix).eigvec, col)
                    /\ ~AxisGreater(EigAt(pix).eigval[2 - col], EigAt(pix).eigval[col + 1])

\* C19: at every computed pixel majAx and minAx are the two eigenvalues of
\* the strain tensor E = [[Eps11, Eps12], [Eps12, Eps22]], majAx >= minAx,
\* and they are one value when the eigenvalues are equal.  With E + I =
\* p / (den h), lambda is an eigenvalue of E exactly when (lambda + 1) den h
\* is one of p: (tr p +- sqrt((p11 - p22)^2 + 4 p12^2)) / 2; the stored
\* (h +- g) / (2 den) - 1 are these when tr p = h^2 and (p11 - p22)^2 +
\* 4 p12^2 = g^2 h^2.
C19_AxesAreOrderedEigenvalues ==
    InStrain =>
        \A pix \in done :
            ComputedAt(pix) =>
                LET e11 == StrainComponents.Eps11[pix[1]][pix[2]][1]
                    e22 == StrainComponents.Eps22[pix[1]][pix[2]][1]
                    e12 == StrainComponents.Eps12[pix[1]][pix[2]][1]
                    maj == StrainComponents.majAx[pix[1]][pix[2]][1]
                    min == StrainComponents.minAx[pix[1]][pix[2]][1]
                IN  /\ maj.hsq = e11.hsq /\ maj.den = e11.den
                    /\ min.hsq = maj.hsq /\ min.den = maj.den /\ min.gsq = maj.gsq
                    /\ e11.num + e22.num = maj.hsq
                    /\ (e11.num - e22.num) * (e11.num - e22.num) + 4 * e12.num * e12.num
                          = maj.gsq * maj.hsq
                    /\ maj.sgn = 1
                    /\ IF maj.gsq = 0 THEN min = maj ELSE min.sgn = -1

\* C19 witness: a computed pixel with Eps11 < Eps22 and two different
\* eigenvalues: np.linalg.eig returns the smaller one first, and majAx is
\* the second.
C19_Witness ==
    /\ InStrain /\ strainStatus = "returned"
    /\ ComputedAt(<<0, 0>>)
    /\ StrainComponents.Eps11[0][0][1].num < StrainComponents.Eps22[0][0][1].num
    /\ StrainComponents.majAx[0][0][1].gsq > 0
    /\ StrainComponents.majAx[0][0] = EigAt(<<0, 0>>).eigval[2]
    /\ StrainComponents.minAx[0][0] = EigAt(<<0, 0>>).eigval[1]

\* the orthogonal factor r at pix, times h: [[a00, -det a10], [a10, det a00]]
RotationAt(pix) ==
    LET r == polar(NormalisedAt(pix).n, "left").r
    IN  <<<<r.a00, -r.det * r.a10>>, <<r.a10, r.det * r.a00>>>>

\* M at pix is invertible
InvertibleAt(pix) == ComputedAt(pix) /\ Det2(NormalisedAt(pix).n) # 0

\* the stretch p / (den h) is symmetric positive-definite
IsSPD(p) == p[1][2] = p[2][1] /\ p[1][1] > 0 /\ Det2(p) > 0

\* C20 as stated: at every computed pixel with an invertible M the
\* orthogonal factor behind Theta has determinant +1 and the stretch behind
\* the strain is symmetric positive-definite, also when det M < 0.
C20_ProperRotation ==
    InStrain =>
        \A pix \in done :
            InvertibleAt(pix) =>
                /\ polar(NormalisedAt(pix).n, "left").r.det = 1
                /\ IsSPD(StretchAt(pix).p)

\* C20 amended: at every computed pixel with an invertible M = n / den the
\* factors are a polar decomposition of M: the orthogonal factor r (columns
\* of unit length, M = r u = v r) has the determinant of M's sign, so it is
\* a proper rotation exactly when det M > 0 and a reflection when the spot
\* vectors are mirrored; the stretch is symmetric positive-definite in both
\* cases; Theta and the strains stored are those of r and of the stretch.
C20_OrthogonalFactorHasSignOfDet ==
    InStrain =>
        \A pix \in done :
            InvertibleAt(pix) =>
                LET n == NormalisedAt(pix).n
                    r == polar(n, "left").r
                    R == RotationAt(pix)
                    u == polar(n, "right")
                    v == polar(n, "left")
                IN  /\ r.det = Sign(Det2(n))
                    /\ r.a00 * r.a00 + r.a10 * r.a10 = v.hsq
                    /\ MatMul(R, u.p) = [i \in 1..2 |-> <<v.hsq * n[i][1], v.hsq * n[i][2]>>]
                    /\ MatMul(v.p, R) = [i \in 1..2 |-> <<v.hsq * n[i][1], v.hsq * n[i][2]>>]
                    /\ IsSPD(u.p) /\ IsSPD(v.p)
                    /\ StrainComponents.Theta[pix[1]][pix[2]] = Arctan2(Num(r.a10), Num(r.a00))
                    /\ StrainComponents.Eps11[pix[1]][pix[2]][1].num = StretchAt(pix).p[1][1]
                    /\ StrainComponents.Eps22[pix[1]][pix[2]][1].num = StretchAt(pix).p[2][2]
                    /\ StrainComponents.Eps12[pix[1]][pix[2]][1].num = StretchAt(pix).p[1][2]

\* C20 witness: the reference (5,0), (0,5) and a pixel with the mirrored
\* vectors (5,0), (0,-5): M = diag(1,-1), r is the reflection diag(1,-1)
\* and Theta = arctan2(0, 1).
C20_Witness ==
    /\ InStrain /\ refPoints = <<<<RefScale, 0>>, <<0, RefScale>>>>
    /\ InvertibleAt(<<0, 0>>)
    /\ strainArgs[1].spotMaps.VectorX2[2][0][0] = Num(-RefScale)
    /\ Det2(NormalisedAt(<<0, 0>>).n) < 0
    /\ polar(NormalisedAt(<<0, 0>>).n, "left").r.det = -1
    /\ StrainComponents.Theta[0][0] = <<0, 1>>

\* the measured vector of spot s at pix
MeasuredAt(pix, s) ==
    <<strainArgs[1].spotMaps.VectorX1[s][pix[1]][pix[2]][1],
      strainArgs[1].spotMaps.VectorX2[s][pix[1]][pix[2]][1]>>

\* C21 as stated: at every computed pixel M = n / den maps the reference
\* vector of spot s to the measured vector of spot s, s = 0, 1, for every
\* linearly independent reference pair: M r_s = d_s with the vectors as
\* columns, or r_s M = d_s with the vectors as rows.
C21_MMapsReferenceToMeasured ==
    InStrain =>
        \A pix \in done :
            ComputedAt(pix) =>
                LET M == Mlocal[pix[1]][pix[2]][1]
                    r(s) == refPoints[s]
                    d(s) == MeasuredAt(pix, s)
                IN  \/ \A s \in 1..2 :
                          /\ M.n[1][1] * r(s)[1] + M.n[1][2] * r(s)[2] = M.den * d(s)[1]
                          /\ M.n[2][1] * r(s)[1] + M.n[2][2] * r(s)[2] = M.den * d(s)[2]
                    \/ \A s \in 1..2 :
                          /\ r(s)[1] * M.n[1][1] + r(s)[2] * M.n[2][1] = M.den * d(s)[1]
                          /\ r(s)[1] * M.n[1][2] + r(s)[2] * M.n[2][2] = M.den * d(s)[2]

\* the angle ang is atan2(y, x): the direction of (y, x), or 0 for (0, 0)
IsAtan2(ang, y, x) ==
    IF y = 0 /\ x = 0 THEN ang = <<0, 1>>
    ELSE \E g \in 1..Max(Abs(y), Abs(x)) : y = g * ang[1] /\ x = g * ang[2]

\* C22: after get_spotMaps has returned, for every spot and every position
\* VectorX1 = Q1map - floor(N_k1/2) and VectorX2 = Q2map - floor(N_k2/2)
\* (in ticks), VectorLength squared is VectorX1^2 + VectorX2^2 and
\* VectorAngle = atan2(VectorX1, VectorX2); where Q1map, Q2map are nan all
\* four are nan.  Q1map and Q2map are returned as the sweep left them.
C22_VectorsFromFixedCentre ==
    (unit = "get_spotMaps" /\ status = "returned") =>
        LET upd == spotMaps_upd[1] IN
        /\ upd.Q1map = spotMaps.Q1map /\ upd.Q2map = spotMaps.Q2map
        /\ \A s \in Spots, pos \in Positions :
              LET q1 == upd.Q1map[s][pos[1]][pos[2]]
                  q2 == upd.Q2map[s][pos[1]][pos[2]]
                  x1 == upd.VectorX1[s][pos[1]][pos[2]]
                  x2 == upd.VectorX2[s][pos[1]][pos[2]]
                  len == upd.VectorLength[s][pos[1]][pos[2]]
                  ang == upd.VectorAngle[s][pos[1]][pos[2]]
              IN  IF IsNaN(q1) \/ IsNaN(q2)
                  THEN IsNaN(x1) /\ IsNaN(x2) /\ IsNaN(len) /\ IsNaN(ang)
                  ELSE /\ x1 = Num(q1[1] - Tick * (N_k1 \div 2))
                       /\ x2 = Num(q2[1] - Tick * (N_k2 \div 2))
                       /\ len = Num(x1[1] * x1[1] + x2[1] * x2[1])
                       /\ IsAtan2(ang, x1[1], x2[1])

\* C22 witness: a returned sweep over an even x odd pattern (2 x 3) with a
\* written position whose row and column components differ and are not
\* both zero, so that the order of the arguments of atan2 shows.
C22_Witness ==
    /\ unit = "get_spotMaps" /\ status = "returned"
    /\ N_k1 % 2 = 0 /\ N_k2 % 2 = 1
    /\ \E s \in Spots, pos \in Positions :
          LET x1 == spotMaps_upd[1].VectorX1[s][pos[1]][pos[2]]
              x2 == spotMaps_upd[1].VectorX2[s][pos[1]][pos[2]]
          IN  ~IsNaN(x1) /\ ~IsNaN(x2) /\ x1 # x2 /\ x1[1] # 0

\* the positions the caller asked for: all of them when valid is None
RequestedPositions ==
    IF valid = <<>> THEN Positions
    ELSE { pos \in Positions : valid[1][pos[1]][pos[2]] }

\* a (row,col) pair is written for every window at pos
PairsWrittenAt(pos) ==
    \A s \in Spots : /\ ~IsNaN(spotMaps.Q1map[s][pos[1]][pos[2]])
                     /\ ~IsNaN(spotMaps.Q2map[s][pos[1]][pos[2]])

\* a supported method and windows with min <= max inside the pattern
SweepInputsUsable ==
    /\ unit = "get_spotMaps"
    /\ method \in {"Nelder-Mead"} \cup BoundedMethods
    /\ \A i \in 1..Len(wins) : ~InvalidWindow(wins[i])

\* C24: the sweep of get_spotMaps ends in every run; while no error is
\* raised it has processed only requested positions (those where the mask
\* is true, every position when valid is None), each pass takes one
\* position not taken before and leaves the pairs of the positions taken
\* earlier alone, every processed position holds a pair for each of the N
\* windows and every other position none; the function returns only when
\* the processed positions are exactly the requested ones; with a supported
\* method and usable windows no error is raised, so that it does return.
C24_SweepTerminates ==
    /\ []((unit = "get_spotMaps" /\ status \in {"sweep", "returned"}) =>
             /\ visited \subseteq RequestedPositions
             /\ \A pos \in visited : PairsWrittenAt(pos)
             /\ \A pos \in Positions \ visited, s \in Spots :
                    /\ IsNaN(spotMaps.Q1map[s][pos[1]][pos[2]])
                    /\ IsNaN(spotMaps.Q2map[s][pos[1]][pos[2]])
             /\ status = "returned" => visited = RequestedPositions)
    /\ [][(unit = "get_spotMaps" /\ status = "sweep" /\ status' = "sweep") =>
             /\ Cardinality(visited' \ visited) = 1
             /\ visited \subseteq visited'
             /\ \A pos \in visited, s \in Spots :
                    /\ spotMaps'.Q1map[s][pos[1]][pos[2]] = spotMaps.Q1map[s][pos[1]][pos[2]]
                    /\ spotMaps'.Q2map[s][pos[1]][pos[2]] = spotMaps.Q2map[s][pos[1]][pos[2]]
         ]_vars
    /\ [](SweepInputsUsable => status \in {"ready", "sweep", "returned"})
    /\ <>(status \notin {"ready", "sweep"})

\* C24 witness: a returned 2 x 2 sweep with two windows under a mask that
\* is true at (0,1) and (1,0) only: exactly these two were processed.
C24_Witness ==
    /\ unit = "get_spotMaps" /\ status = "returned"
    /\ N_x1 = 2 /\ N_x2 = 2 /\ Len(wins) = 2
    /\ valid # <<>> /\ RequestedPositions = {<<0, 1>>, <<1, 0>>}
    /\ visited = RequestedPositions
    /\ \A pos \in visited : PairsWrittenAt(pos)

\* C24 witness, no mask: valid is None and all four positions of a 2 x 2
\* scan were processed.
C24_WitnessNoMask ==
    /\ unit = "get_spotMaps" /\ status = "returned"
    /\ N_x1 = 2 /\ N_x2 = 2 /\ valid = <<>>
    /\ visited = Positions /\ Cardinality(visited) = 4

\* C25: the inputs are read-only.  No step of get_spotMaps changes the 4D
\* data, the windows or the mask; the call of calculateSpotMapVectors
\* returns a dictionary with the four vector fields and leaves the one
\* passed in with the keys Q1map, Q2map only and their values unchanged;
\* no step of calculateStrainMap changes the SpotMap or the reference
\* points, and makeRelativeSpotReference(_median) leaves the SpotMap and
\* ref_roi as they were.
C25_InputsReadOnly ==
    /\ [][/\ data4d_roi' = data4d_roi /\ wins' = wins /\ valid' = valid
          /\ strainArgs' = strainArgs
          /\ refArgs' = refArgs
          /\ (unit = "get_spotMaps" /\ status = "sweep" /\ status' = "returned") =>
                /\ spotMaps' = spotMaps
                /\ spotMaps_upd'[1] # spotMaps'
                /\ DOMAIN spotMaps_upd'[1] = SpotFields
      ]_vars
    /\ []((unit = "get_spotMaps" /\ status \in {"sweep", "returned"}) =>
              DOMAIN spotMaps = {"Q1map", "Q2map"})

\* C25 witness, get_spotMaps: a returned sweep: the dictionary the sweep
\* filled has two keys, the one returned six, and Q1map holds a number.
C25_Witness ==
    /\ unit = "get_spotMaps" /\ status = "returned"
    /\ DOMAIN spotMaps = {"Q1map", "Q2map"}
    /\ DOMAIN spotMaps_upd[1] = SpotFields
    /\ \E s \in Spots, pos \in Positions : ~IsNaN(spotMaps.Q1map[s][pos[1]][pos[2]])

\* C25 witness, the reference: makeRelativeSpotReference_median has
\* returned a reference with a number in it, taken over the whole scan.
C25_WitnessReference ==
    /\ unit = "makeRelativeSpotReference" /\ refOut # <<>>
    /\ refArgs[1].median /\ refArgs[1].ref_roi = <<0, 2, 0, 2>>
    /\ ~IsNaN(refOut[1].point[1][1])

\* ------------------------------------------------------------------------
\* Claims about the refinement in get_spotMaps
\* ------------------------------------------------------------------------
\* x (in ticks) lies in the closed rectangle q1 x q2 (in pixels)
InRectangleOf(x, q1, q2) ==
    /\ Tick * q1[1] <= x[1] /\ x[1] <= Tick * q1[2]
    /\ Tick * q2[1] <= x[2] /\ x[2] <= Tick * q2[2]

\* the point written for window s at pos, in ticks
WrittenAt(pos, s) ==
    <<spotMaps.Q1map[s][pos[1]][pos[2]][1], spotMaps.Q2map[s][pos[1]][pos[2]][1]>>

\* The objective the optimizer minimizes for window s at pos, at the point
\* c: <<its value>>, or <<>> where the bounds of a bounded method exclude c.
ObjectiveAt(pos, s, c) ==
    LET p == data4d_roi.pat[pos[1]][pos[2]]
        sl == create_spotList(wins)
        q1 == sl.spotRangeQ1[s]
        q2 == sl.spotRangeQ2[s]
    IN  IF method = "Nelder-Mead" THEN <<ConstrainedFun(c, p, q1, q2).v>>
        ELSE IF /\ Tick * q1[1] <= c[1] /\ c[1] <= Tick * (q1[2] + 1)
                /\ Tick * q2[1] <= c[2] /\ c[2] <= Tick * (q2[2] + 1)
             THEN <<PeakFun(p, c)>>
             ELSE <<>>

\* x is no better than y for the objective (y admissible)
NoWorse(pos, s, x, y) ==
    \/ ObjectiveAt(pos, s, y) = <<>>
    \/ /\ ObjectiveAt(pos, s, x) # <<>>
       /\ ObjectiveAt(pos, s, x)[1] <= ObjectiveAt(pos, s, y)[1]

\* The optimizer met its tolerance for window s at pos: the point it
\* returned is a minimum among its neighbours.  (Neither fmin's warnflag nor
\* OptimizeResult.success is read by get_spotMaps.)
ConvergedAt(pos, s) ==
    \A c \in Neighbours(WrittenAt(pos, s)) : NoWorse(pos, s, WrittenAt(pos, s), c)

SupportedMethods == {"Nelder-Mead"} \cup BoundedMethods

\* C14: an optimizer that stops short of a minimum is not an error: with a
\* supported method and valid windows get_spotMaps raises nothing, and at
\* every visited position every window, converged or not, has in Q1map and
\* Q2map the best point the optimizer found: one that is no worse than the
\* start (Q1max, Q2max) and than every point examined around it.
C14_NonConvergenceNotFatal ==
    (/\ unit = "get_spotMaps" /\ status # "ready"
     /\ method \in SupportedMethods
     /\ \A s \in Spots : ~InvalidWindow(wins[s])) =>
        /\ status \in {"sweep", "returned"}
        /\ \A pos \in visited, s \in Spots :
              LET Qmax == coarse[s][pos[1]][pos[2]][1]
                  x0 == <<Tick * Qmax[1], Tick * Qmax[2]>>
              IN  /\ ~IsNaN(spotMaps.Q1map[s][pos[1]][pos[2]])
                  /\ ~IsNaN(spotMaps.Q2map[s][pos[1]][pos[2]])
                  /\ \A c \in Neighbours(x0) : NoWorse(pos, s, WrittenAt(pos, s), c)

\* C14 witness: a returned map with a position visited at which the
\* optimizer of the first window did not converge (the point written has a
\* better neighbour), and the second window and the later positions were
\* processed all the same.
C14_Witness ==
    /\ unit = "get_spotMaps" /\ status = "returned"
    /\ method \in SupportedMethods
    /\ Len(wins) = 2 /\ \A s \in Spots : ~InvalidWindow(wins[s])
    /\ visited = Positions /\ Cardinality(Positions) > 1
    /\ ~ConvergedAt(<<0, 0>>, 1)
    /\ \A pos \in Positions : ~IsNaN(spotMaps.Q1map[2][pos[1]][pos[2]])

\* C16 as stated: with a bounded method the box passed to the optimizer is
\* the window: lower bound the window minimum, upper bound the window
\* maximum on each axis, so that the point stored lies in the rectangle the
\* coarse search and the simplex constraint use.
C16_BoundsEqualWindow ==
    (unit = "get_spotMaps" /\ status \in {"sweep", "returned"} /\ method \in BoundedMethods) =>
        \A pos \in visited, s \in Spots :
            ~InvalidWindow(wins[s]) =>
                LET sl == create_spotList(wins)
                    q1 == sl.spotRangeQ1[s]
                    q2 == sl.spotRangeQ2[s]
                IN  /\ bnds(q1, q2) = <<q1, q2>>
                    /\ InRectangleOf(WrittenAt(pos, s), q1, q2)

\* the cepstrum of the pattern at pos
CepstrumAt(pos) == ewpc2D(data4d_roi.pat[pos[1]][pos[2]], N_k1, N_k2)

\* C17: for a window inside the pattern, (Q1max, Q2max) at a visited
\* position is a pixel of the window, both bounds included; no pixel of the
\* window has a larger cepstral value, and none that comes before it in
\* row-major order has an equal one; the optimizer starts there: the point
\* it returns is the start or one of the points examined around it.
C17_StartIsCoarseMaximum ==
    (unit = "get_spotMaps" /\ status \in {"sweep", "returned"}) =>
        \A pos \in visited, s \in Spots :
            ~InvalidWindow(wins[s]) =>
                LET Qmax == coarse[s][pos[1]][pos[2]][1]
                    q1 == create_spotList(wins).spotRangeQ1[s]
                    q2 == create_spotList(wins).spotRangeQ2[s]
                    EWPC == CepstrumAt(pos)
                IN  /\ q1[1] <= Qmax[1] /\ Qmax[1] <= q1[2]
                    /\ q2[1] <= Qmax[2] /\ Qmax[2] <= q2[2]
                    /\ \A a \in q1[1]..q1[2], b \in q2[1]..q2[2] :
                          /\ EWPC[a][b] <= EWPC[Qmax[1]][Qmax[2]]
                          /\ (a < Qmax[1] \/ (a = Qmax[1] /\ b < Qmax[2])) =>
                                EWPC[a][b] < EWPC[Qmax[1]][Qmax[2]]
                    /\ method \in SupportedMethods =>
                          WrittenAt(pos, s) \in Neighbours(<<Tick * Qmax[1], Tick * Qmax[2]>>)

\* C17 witness: the window of the whole pattern at a visited position: the
\* coarse maximum is not its first pixel, and another pixel of the window
\* has the same cepstral value after it.
C17_Witness ==
    /\ unit = "get_spotMaps" /\ status = "returned"
    /\ wins[1] = FullWin /\ <<0, 0>> \in visited
    /\ coarse[1][0][0] # << <<0, 0>> >>
    /\ \E a \in 0..(N_k1 - 1), b \in 0..(N_k2 - 1) :
          /\ <<a, b>> # coarse[1][0][0][1]
          /\ CepstrumAt(<<0, 0>>)[a][b]
                = CepstrumAt(<<0, 0>>)[coarse[1][0][0][1][1]][coarse[1][0][0][1][2]]

\* C26: with Nelder-Mead and a window with min <= max inside the pattern,
\* at every visited position the start (Q1max, Q2max) lies in the closed
\* rectangle of the window and the objective is <= 0 there, every point
\* the optimizer examines outside the rectangle has an objective > 0, the
\* point returned has an objective no greater than the start's, and
\* q1_min <= Q1map <= q1_max, q2_min <= Q2map <= q2_max.
C26_SimplexStaysInWindow ==
    (unit = "get_spotMaps" /\ status \in {"sweep", "returned"} /\ method = "Nelder-Mead") =>
        \A pos \in visited, s \in Spots :
            ~InvalidWindow(wins[s]) =>
                LET Qmax == coarse[s][pos[1]][pos[2]][1]
                    x0 == <<Tick * Qmax[1], Tick * Qmax[2]>>
                    p == data4d_roi.pat[pos[1]][pos[2]]
                    q1 == create_spotList(wins).spotRangeQ1[s]
                    q2 == create_spotList(wins).spotRangeQ2[s]
                IN  /\ InRectangleOf(x0, q1, q2)
                    /\ ConstrainedFun(x0, p, q1, q2).v <= 0
                    /\ \A c \in Neighbours(x0) :
                          ~InRectangleOf(c, q1, q2) => ConstrainedFun(c, p, q1, q2).v > 0
                    /\ ConstrainedFun(WrittenAt(pos, s), p, q1, q2).v
                          <= ConstrainedFun(x0, p, q1, q2).v
                    /\ InRectangleOf(WrittenAt(pos, s), q1, q2)

\* C26 witness: a visited position where the cepstrum rises across the
\* edge of the window: a point next to the start, outside the rectangle,
\* has a larger peak magnitude than every point of the rectangle next to
\* the start, and the point written is in the rectangle all the same.
C26_Witness ==
    /\ unit = "get_spotMaps" /\ status \in {"sweep", "returned"} /\ method = "Nelder-Mead"
    /\ \E pos \in visited, s \in Spots :
          /\ ~InvalidWindow(wins[s])
          /\ LET Qmax == coarse[s][pos[1]][pos[2]][1]
                 x0 == <<Tick * Qmax[1], Tick * Qmax[2]>>
                 p == data4d_roi.pat[pos[1]][pos[2]]
                 q1 == create_spotList(wins).spotRangeQ1[s]
                 q2 == create_spotList(wins).spotRangeQ2[s]
             IN  /\ \E c \in Neighbours(x0) :
                       /\ ~InRectangleOf(c, q1, q2)
                       /\ \A d \in Neighbours(x0) :
                             InRectangleOf(d, q1, q2) => PeakFun(p, c) < PeakFun(p, d)
                 /\ InRectangleOf(WrittenAt(pos, s), q1, q2)

\* the slices of window w select no pixel on some axis
EmptySlice(w) ==
    \/ SliceIdx(w[3], w[4] + 1, N_k1) = <<>>
    \/ SliceIdx(w[1], w[2] + 1, N_k2) = <<>>

\* C27: with a method that is none of 'Nelder-Mead', 'L-BFGS-B', 'Powell',
\* 'TNC', get_spotMaps never returns a map once a position is valid (the
\* windows are at least one): the first position it processes raises an
\* error at its first window (NameError: peakQ is not bound; ValueError
\* from the coarse search when the slice of that window is empty), nothing
\* has been written into Q1map or Q2map, no further position is processed
\* and nothing is returned.
C27_UnsupportedMethodFails ==
    (unit = "get_spotMaps" /\ status # "ready" /\ method \notin SupportedMethods) =>
        /\ status = "returned" => mask_pos = {}
        /\ spotMaps_upd # <<>> => mask_pos = {}
        /\ visited # {} =>
              /\ Cardinality(visited) = 1
              /\ status = IF EmptySlice(wins[1]) THEN "ValueError" ELSE "NameError"
              /\ peakQ = <<>>
              /\ \A s \in Spots, pos \in Positions :
                    /\ IsNaN(spotMaps.Q1map[s][pos[1]][pos[2]])
                    /\ IsNaN(spotMaps.Q2map[s][pos[1]][pos[2]])
              /\ \A s \in Spots, pos \in Positions :
                    coarse[s][pos[1]][pos[2]] # <<>> => (s = 1 /\ pos \in visited)

\* C27 witness: method 'BFGS', two windows and three valid positions of a
\* 2 x 2 scan: the first position processed has raised NameError, the maps
\* hold nan everywhere and nothing is returned.
C27_Witness ==
    /\ unit = "get_spotMaps" /\ status = "NameError" /\ method = "BFGS"
    /\ Len(wins) = 2 /\ N_x1 = 2 /\ N_x2 = 2
    /\ Cardinality(mask_pos) = 3 /\ Cardinality(visited) = 1
    /\ spotMaps_upd = <<>>
    /\ \A s \in Spots, pos \in Positions : IsNaN(spotMaps.Q1map[s][pos[1]][pos[2]])

\* ------------------------------------------------------------------------
\* ConstrainedFun called on its own
\* ------------------------------------------------------------------------
ConPoints == (-1..5) \X (-1..5)                     \* x, in ticks
ConWindows == {<<0, 1>>, <<1, 1>>, <<0, 2>>, <<1, 0>>}   \* win1, win2, in pixels

InitConstrained ==
    /\ unit = "ConstrainedFun"
    /\ \E x \in ConPoints, win1 \in ConWindows, win2 \in ConWindows,
          peak \in StartPeaks, height \in 0..MaxHeight :
          conArgs = [x |-> x, func |-> [peak |-> peak, height |-> height],
                     win1 |-> win1, win2 |-> win2]
    /\ conOut = <<>>
    /\ f = <<>> /\ cftCall = <<>> /\ beamArgs = <<>> /\ bdisk_filter = <<>>
    /\ SpotsIdle /\ StrainIdle /\ EwpcIdle /\ RefIdle

\* One call of ConstrainedFun(x, func, win1, win2): y, and whether func was
\* called (the else branch).
ConstrainedFunCall ==
    /\ unit = "ConstrainedFun"
    /\ conOut = <<>>
    /\ conOut' = <<ConstrainedFun(conArgs.x, conArgs.func, conArgs.win1, conArgs.win2)>>
    /\ UNCHANGED <<unit, conArgs, ewpcVars, refVars, fourierVars, beamVars, spotVars, strainVars>>

NextConstrained == ConstrainedFunCall
SpecConstrained == InitConstrained /\ [][NextConstrained]_vars

\* C15: ConstrainedFun calls func(x), and returns its value, exactly when x
\* is in the closed window rectangle; for every other x it returns the
\* distance of x from the window centre (the mean of the bounds on each
\* axis; here its square, in ticks) without calling func.
C15_ConstraintIffOutside ==
    (unit = "ConstrainedFun" /\ conOut # <<>>) =>
        LET x == conArgs.x
            y == conOut[1]
            c1 == conArgs.win1[1] + conArgs.win1[2]      \* the mean, in ticks
            c2 == conArgs.win2[1] + conArgs.win2[2]
        IN  /\ ~y.outside = InRectangleOf(x, conArgs.win1, conArgs.win2)
            /\ ~y.outside => y.v = PeakFun(conArgs.func, x)
            /\ y.outside => y.v = (x[1] - c1) * (x[1] - c1) + (x[2] - c2) * (x[2] - c2)

\* C15 witness: x = (1, 2) pixels (ticks (2, 4)), on the upper edge of both
\* win1 = [0,1] and win2 = [0,2]: func is called and its value returned.
C15_Witness ==
    /\ unit = "ConstrainedFun" /\ conOut # <<>>
    /\ conArgs.x = <<2, 4>> /\ conArgs.win1 = <<0, 1>> /\ conArgs.win2 = <<0, 2>>
    /\ ~conOut[1].outside
    /\ conOut[1].v = PeakFun(conArgs.func, conArgs.x)

====
